---- MODULE Spec2Model ----
(***************************************************************************)
(* Network discovery, device registry and global domain blocking of the    *)
(* IT asset management system.                                             *)
(*                                                                         *)
(* The specifications that share the module:                               *)
(*   SpecBlocking    GlobalBlockingManager without a router profile        *)
(*   SpecBlockList   the entries of its block-list as time passes          *)
(*   SpecRouter      GlobalBlockingManager driving a router over SSH       *)
(*   SpecReapply     reapply_all_rules against a real router               *)
(*   SpecProfile     GlobalBlockingManager over every router_config.json   *)
(*   SpecRegistry    NetworkDiscovery.save_to_local_db called sequentially *)
(*   SpecDiscovery   DiscoveryManager, the background loops and the        *)
(*                   scan-now request handler as interleaved threads       *)
(*   SpecFirewall    FirewallManager and its adapters                      *)
(*   SpecNegotiation RouterConfigManager: connection tests, status updates *)
(*   SpecValidation  RouterConfigManager.validate_config                   *)
(*   SpecClassifier  classify_device and get_behavior_tag                  *)
(*   SpecFleet       apply_domain_block and remove_domain_block on a router*)
(*   SpecScan        perform_network_scan with and without nmap and scapy  *)
(*   SpecLoop        one background loop from its start to the shutdown    *)
(*   SpecOpenWrt     OpenWrtFirewall.block_domain over one SSH session     *)
(*   SpecMock        perform_mock_scan on the loop and the request thread  *)
(*   SpecMockLoop    perform_mock_scan on the loop thread alone            *)
(*   SpecUnblock     one domain added, re-applied and removed on a router  *)
(* Each specification moves its own variables and leaves the others at     *)
(* their initial value.                                                    *)
(***************************************************************************)
EXTENDS Integers, Sequences, FiniteSets, TLC

VARIABLES
    \* ---- global_blocking.py ----
    blocked_domains,   \* GlobalBlockingManager.blocked_domains (in memory)
    config_file,       \* content of global_blocked_sites.json
    router_config,     \* content of router_config.json, the router profile
    router_rules,      \* iptables FORWARD chain of the router, oldest first
    fleet,             \* currentIp of the devices GET /api/network-devices lists
    block_result,      \* what the last manager call returned and invoked
    \* ---- network_discovery.py / discovery_dashboard.py ----
    now,               \* the wall clock (CURRENT_TIMESTAMP, datetime.now())
    discovered_devices,\* table discovered_devices of network_devices.db
    scan_history,      \* table scan_history of network_devices.db
    next_id,           \* AUTOINCREMENT counter of discovered_devices
    reconciled,        \* MACs of the observations of every committed save
    engines,           \* every engine instance created so far
    real_discovery,    \* DiscoveryManager.real_discovery (0 is None)
    mock_discovery,    \* DiscoveryManager.mock_discovery (0 is None)
    current_mode,      \* DiscoveryManager.current_mode
    handler,           \* the request thread serving /api/scan-now
    scan_calls,        \* every perform_network_scan that returned: count, strategy
    NMAP_AVAILABLE,    \* whether import nmap succeeded
    SCAPY_AVAILABLE,   \* whether import scapy succeeded
    \* ---- network_firewall.py ----
    firewall_type,     \* FirewallManager.firewall_type, "" before construction
    firewall_rules,    \* SimulatedFirewall.rules
    rule_counter,      \* SimulatedFirewall.rule_counter
    firewall_result,   \* the last call on the manager's adapter and its result
    \* ---- router_config_manager.py ----
    config,            \* RouterConfigManager.config
    negotiation,       \* the last test_ssh_connection: its steps and result
    validation,        \* the last validate_config: the configuration and result
    \* ---- network_discovery.py: the classifier ----
    classified         \* the last observation classified and its labels

blockVars == <<blocked_domains, config_file, router_config, router_rules, fleet, block_result>>
registryVars == <<discovered_devices, scan_history, next_id, reconciled>>
managerVars == <<engines, real_discovery, mock_discovery, current_mode, handler, scan_calls,
                 NMAP_AVAILABLE, SCAPY_AVAILABLE>>
firewallVars == <<firewall_type, firewall_rules, rule_counter, firewall_result>>
profileVars == <<config, negotiation, validation>>
auxVars == <<firewallVars, profileVars, classified>>

vars == <<blockVars, now, registryVars, managerVars, auxVars>>

(***************************************************************************)
(* Bounds of the model.                                                    *)
(***************************************************************************)
MaxTime == 2          \* the clock stops ticking here
MaxList == 2          \* entries the block-list may hold
MaxRules == 3         \* rules the router's FORWARD chain may hold
MaxScans == 3         \* rows the scan_history table may hold
MaxCalls == 2         \* scans perform_network_scan may complete
MaxRuleId == 3        \* rule ids the simulated firewall may hand out
MaxEngines == 2       \* engine instances the manager may create
MockSeed == 1         \* devices perform_mock_scan seeds an empty map with (8 in the code)
MockCapacity == 2     \* devices add_new_devices stops at (25 in the code)

(***************************************************************************)
(* Python str operations on TLA+ strings.                                  *)
(***************************************************************************)
UpperChars == "ABCDEFGHIJKLMNOPQRSTUVWXYZ"
LowerChars == "abcdefghijklmnopqrstuvwxyz"
Whitespace == {" ", "\t", "\n", "\r"}

CharAt(s, i) == SubSeq(s, i, i)

LowerChar(c) ==
    IF \E i \in 1..26 : CharAt(UpperChars, i) = c
    THEN CharAt(LowerChars, CHOOSE i \in 1..26 : CharAt(UpperChars, i) = c)
    ELSE c

RECURSIVE Lower(_)
\* str.lower()
Lower(s) == IF Len(s) = 0 THEN "" ELSE LowerChar(CharAt(s, 1)) \o Lower(Tail(s))

RECURSIVE LStrip(_)
LStrip(s) == IF Len(s) > 0 /\ CharAt(s, 1) \in Whitespace THEN LStrip(Tail(s)) ELSE s

RECURSIVE RStrip(_)
RStrip(s) ==
    IF Len(s) > 0 /\ CharAt(s, Len(s)) \in Whitespace
    THEN RStrip(SubSeq(s, 1, Len(s) - 1))
    ELSE s

\* str.strip()
Strip(s) == RStrip(LStrip(s))

RECURSIVE Remove(_, _)
\* str.replace(old, ''): every non-overlapping occurrence, left to right
Remove(s, old) ==
    IF Len(s) < Len(old) THEN s
    ELSE IF SubSeq(s, 1, Len(old)) = old
         THEN Remove(SubSeq(s, Len(old) + 1, Len(s)), old)
         ELSE CharAt(s, 1) \o Remove(Tail(s), old)

\* pattern in text
Contains(text, pattern) ==
    \E i \in 1..(Len(text) - Len(pattern) + 1) :
        SubSeq(text, i, i + Len(pattern) - 1) = pattern

IsLetter(c) ==
    \E i \in 1..26 : CharAt(UpperChars, i) = c \/ CharAt(LowerChars, i) = c

UpperChar(c) ==
    IF \E i \in 1..26 : CharAt(LowerChars, i) = c
    THEN CharAt(UpperChars, CHOOSE i \in 1..26 : CharAt(LowerChars, i) = c)
    ELSE c

RECURSIVE TitleFrom(_, _)
TitleFrom(s, after_letter) ==
    IF Len(s) = 0 THEN ""
    ELSE LET c == CharAt(s, 1) IN
         (IF after_letter THEN LowerChar(c) ELSE UpperChar(c))
             \o TitleFrom(Tail(s), IsLetter(c))

\* str.title()
Title(s) == TitleFrom(s, FALSE)

RECURSIVE Join(_, _)
\* sep.join(parts)
Join(sep, parts) ==
    IF Len(parts) = 0 THEN ""
    ELSE IF Len(parts) = 1 THEN parts[1]
    ELSE parts[1] \o sep \o Join(sep, Tail(parts))

\* s.split(sep)[0]
BeforeFirst(s, sep) ==
    IF Contains(s, sep)
    THEN SubSeq(s, 1, (CHOOSE i \in 1..Len(s) :
                          /\ SubSeq(s, i, i + Len(sep) - 1) = sep
                          /\ \A j \in 1..(i - 1) : SubSeq(s, j, j + Len(sep) - 1) # sep) - 1)
    ELSE s

Digits == "0123456789"
IsDigit(c) == \E i \in 1..10 : CharAt(Digits, i) = c
DigitValue(c) == (CHOOSE i \in 1..10 : CharAt(Digits, i) = c) - 1

RECURSIVE DigitsValue(_)
\* the number a string of decimal digits writes
DigitsValue(s) ==
    IF Len(s) = 0 THEN 0
    ELSE 10 * DigitsValue(SubSeq(s, 1, Len(s) - 1)) + DigitValue(CharAt(s, Len(s)))

\* what int(s) reads after dropping surrounding whitespace and one sign
Unsigned(s) ==
    LET t == Strip(s) IN
    IF Len(t) > 0 /\ CharAt(t, 1) \in {"+", "-"} THEN Tail(t) ELSE t

\* whether int(s) returns instead of raising ValueError: decimal digits,
\* single underscores allowed between two digits
IsInt(s) ==
    LET u == Unsigned(s) IN
    /\ Len(u) > 0
    /\ \A i \in 1..Len(u) :
          \/ IsDigit(CharAt(u, i))
          \/ /\ CharAt(u, i) = "_"
             /\ 1 < i
             /\ i < Len(u)
             /\ IsDigit(CharAt(u, i - 1))
             /\ IsDigit(CharAt(u, i + 1))

\* int(s)
IntOf(s) ==
    LET t == Strip(s)
        v == DigitsValue(Remove(Unsigned(s), "_"))
    IN
    IF Len(t) > 0 /\ CharAt(t, 1) = "-" THEN 0 - v ELSE v

RECURSIVE Split(_, _)
\* s.split(sep)
Split(s, sep) ==
    IF Contains(s, sep)
    THEN LET first == BeforeFirst(s, sep) IN
         <<first>> \o Split(SubSeq(s, Len(first) + Len(sep) + 1, Len(s)), sep)
    ELSE <<s>>

(***************************************************************************)
(* GlobalBlockingManager                                                   *)
(***************************************************************************)
\* The strings the callers pass as domain: to the block-list specification,
\* and to the real-router specification.
DomainInputs ==
    { "HTTP://WWW.Example.com/", "example.com", " Example.COM ",
      "https://www.example.com", "test.org", "www.test.org" }
RouterDomainInputs == { "example.com", "WWW.Example.com", "test.org" }
AllDomainInputs == DomainInputs \cup RouterDomainInputs

Reasons == {"Global block", "policy"}

\* The device population: currentIp of each device, "" when the device
\* exposes none.
Fleet == <<"10.0.0.5", "", "10.0.0.6">>

\* (variant: the cleaning leaves a "www." in place)
CleanDomainAdd_KeepsWww(domain) ==
    Remove(Remove(Lower(Strip(domain)), "http://"), "https://")

\* add_blocked_domain's cleaning of its input
CleanDomainAdd(domain) ==
    Remove(Remove(Remove(Lower(Strip(domain)), "http://"), "https://"), "www.")

\* remove_blocked_domain's cleaning of its input
CleanDomainRemove(domain) == Lower(Strip(domain))

\* The cleaning of every input, computed once
CleanedForAdd == [d \in AllDomainInputs |-> CleanDomainAdd(d)]
CleanedForRemove == [d \in AllDomainInputs |-> CleanDomainRemove(d)]

\* (variant: the membership test finds nothing)
IsBlocked_Never(list, clean_domain) == FALSE

\* any(d['domain'] == clean_domain for d in self.blocked_domains)
IsBlocked(list, clean_domain) == \E i \in 1..Len(list) : list[i].domain = clean_domain

\* [d for d in self.blocked_domains if d['domain'] != clean_domain]
WithoutDomain(list, clean_domain) ==
    LET Keep(d) == d.domain # clean_domain IN SelectSeq(list, Keep)

\* number of rules in the FORWARD chain
RuleCount(rules) == Len(rules)

\* iptables -A FORWARD -s ip -m string --string domain ... -j REJECT
IptablesAppend(rules, ip, domain) == Append(rules, <<ip, domain>>)

\* iptables -D FORWARD -s ip -m string --string domain ... -j REJECT:
\* deletes the first matching rule, an error when there is none
IptablesDelete(rules, ip, domain) ==
    IF \E i \in 1..Len(rules) : rules[i] = <<ip, domain>>
    THEN LET first == CHOOSE i \in 1..Len(rules) :
                          /\ rules[i] = <<ip, domain>>
                          /\ \A j \in 1..(i - 1) : rules[j] # <<ip, domain>>
         IN SubSeq(rules, 1, first - 1) \o SubSeq(rules, first + 1, Len(rules))
    ELSE rules

\* router_config.json: whether the file exists and parses, its mode, and
\* whether its connection_status.success is present and true
NoProfile == [exists |-> FALSE, mode |-> "", success |-> FALSE]
Profiles ==
    {NoProfile} \cup [exists : {TRUE}, mode : {"simulated", "real"}, success : BOOLEAN]

\* a profile of a real router whose connection test succeeded
RealProfile == [exists |-> TRUE, mode |-> "real", success |-> TRUE]

\* load_router_config: the profile, or None (here NoProfile)
load_router_config(file) == IF file.exists /\ file.success THEN file ELSE NoProfile

\* How one fleet-wide call goes: whether the device list could be fetched,
\* whether ssh.connect succeeded, at which device exec_command raised (0 is
\* never) and for which devices the router's command reported an error.
\* Outcomes that differ only in what the call never reaches are listed once.
CallOutcomes(devices) ==
    LET WithIp == {i \in 1..Len(devices) : devices[i] # ""} IN
    { o \in [fetched : BOOLEAN, connected : BOOLEAN, raises : {0} \cup WithIp,
             errors : SUBSET WithIp] :
        /\ (~o.fetched \/ ~o.connected) => (o.raises = 0 /\ o.errors = {})
        /\ o.raises # 0 => \A i \in o.errors : i < o.raises }

\* the outcomes a call can tell apart under the router profile cfg
OutcomesUnder(cfg, devices) ==
    IF ~load_router_config(cfg).exists
    THEN {o \in CallOutcomes(devices) : o.connected /\ o.raises = 0 /\ o.errors = {}}
    ELSE CallOutcomes(devices)

\* get_discovered_devices
GetDiscoveredDevices(o) == IF o.fetched THEN fleet ELSE <<>>

\* What a fleet-wide call returns (ok, count) and leaves on the router
\* (rules), with the devices it sent a command for, in order (commands), and
\* those of them whose command the router answered without an error (accepted).
FleetResult(ok, count, rules) ==
    [ok |-> ok, count |-> count, rules |-> rules, commands |-> <<>>, accepted |-> <<>>]

\* the result of the rest of a loop, after a command was sent for device_ip
Commanded(rest, device_ip, accepted) ==
    [rest EXCEPT !.commands = <<device_ip>> \o @,
                 !.accepted = IF accepted THEN <<device_ip>> \o @ ELSE @]

RECURSIVE ApplyLoop_CountsEveryCommand(_, _, _, _, _, _)
\* (variant: a command is counted whatever the router answered)
ApplyLoop_CountsEveryCommand(rules, devices, domain, i, applied_count, o) ==
    IF i > Len(devices) THEN FleetResult(TRUE, applied_count, rules)
    ELSE IF devices[i] = ""
    THEN ApplyLoop_CountsEveryCommand(rules, devices, domain, i + 1, applied_count, o)
    ELSE IF o.raises = i
    THEN Commanded(FleetResult(FALSE, 0, rules), devices[i], FALSE)
    ELSE IF i \in o.errors
    THEN Commanded(ApplyLoop_CountsEveryCommand(rules, devices, domain, i + 1,
                                                applied_count + 1, o),
                   devices[i], FALSE)
    ELSE Commanded(ApplyLoop_CountsEveryCommand(IptablesAppend(rules, devices[i], domain),
                                                devices, domain, i + 1,
                                                applied_count + 1, o),
                   devices[i], TRUE)

RECURSIVE ApplyLoop(_, _, _, _, _, _)
\* the loop over devices of apply_domain_block
ApplyLoop(rules, devices, domain, i, applied_count, o) ==
    IF i > Len(devices) THEN FleetResult(TRUE, applied_count, rules)
    ELSE IF devices[i] = "" THEN ApplyLoop(rules, devices, domain, i + 1, applied_count, o)
    ELSE IF o.raises = i
    THEN Commanded(FleetResult(FALSE, 0, rules), devices[i], FALSE)
    ELSE IF i \in o.errors
    THEN Commanded(ApplyLoop(rules, devices, domain, i + 1, applied_count, o),
                   devices[i], FALSE)
    ELSE Commanded(ApplyLoop(IptablesAppend(rules, devices[i], domain), devices, domain,
                             i + 1, applied_count + 1, o),
                   devices[i], TRUE)

apply_domain_block(rules, cfg, domain, o) ==
    LET devices == GetDiscoveredDevices(o) IN
    IF ~load_router_config(cfg).exists
    THEN FleetResult(TRUE, Len(devices), rules)
    ELSE IF ~o.connected THEN FleetResult(FALSE, 0, rules)
    ELSE ApplyLoop(rules, devices, domain, 1, 0, o)

RECURSIVE RemoveLoop(_, _, _, _, _, _)
\* the loop over devices of remove_domain_block
RemoveLoop(rules, devices, domain, i, removed_count, o) ==
    IF i > Len(devices) THEN FleetResult(TRUE, removed_count, rules)
    ELSE IF devices[i] = "" THEN RemoveLoop(rules, devices, domain, i + 1, removed_count, o)
    ELSE IF o.raises = i
    THEN Commanded(FleetResult(FALSE, 0, rules), devices[i], FALSE)
    ELSE IF i \in o.errors
    THEN Commanded(RemoveLoop(rules, devices, domain, i + 1, removed_count + 1, o),
                   devices[i], FALSE)
    ELSE Commanded(RemoveLoop(IptablesDelete(rules, devices[i], domain), devices, domain,
                              i + 1, removed_count + 1, o),
                   devices[i], IptablesDelete(rules, devices[i], domain) # rules)

remove_domain_block(rules, cfg, domain, o) ==
    LET devices == GetDiscoveredDevices(o) IN
    IF ~load_router_config(cfg).exists
    THEN FleetResult(TRUE, Len(devices), rules)
    ELSE IF ~o.connected THEN FleetResult(FALSE, 0, rules)
    ELSE RemoveLoop(rules, devices, domain, 1, 0, o)

\* block_result: the call (op, domain), what it returned (ok, msg, count), the
\* fleet-wide operation it invoked, the domains it handed to that operation
\* (attempted) and those for which the operation failed (failed), and nth,
\* which flips at every call
NoResult ==
    [op |-> "none", domain |-> "", ok |-> TRUE, msg |-> "", count |-> 0,
     invoked |-> "none", attempted |-> <<>>, failed |-> <<>>, nth |-> 0]

BlockEntry(clean_domain, reason, created_by) ==
    [domain |-> clean_domain, reason |-> reason, created_by |-> created_by,
     created_at |-> now, applied_devices |-> <<>>, status |-> "active"]

\* (variant: a failed fleet application takes the entry back out of the list
\* and the file, and the call fails)
add_blocked_domain_Rollback(domain, reason, created_by, save_ok, o) ==
    LET clean_domain == CleanedForAdd[domain]
        res(ok, msg, count, invoked) ==
            [op |-> "add", domain |-> domain, ok |-> ok, msg |-> msg,
             count |-> count, invoked |-> invoked,
             attempted |-> IF invoked = "none" THEN <<>> ELSE <<clean_domain>>,
             failed |-> IF msg = "rules application pending" THEN <<clean_domain>> ELSE <<>>,
             nth |-> 1 - block_result.nth]
        r == apply_domain_block(router_rules, router_config, clean_domain, o)
    IN
    IF IsBlocked(blocked_domains, clean_domain)
    THEN /\ block_result' = res(FALSE, "already blocked", 0, "none")
         /\ UNCHANGED <<blocked_domains, config_file, router_rules>>
    ELSE IF save_ok /\ ~r.ok
    THEN /\ block_result' = res(FALSE, "rules application pending", 0, "apply")
         /\ config_file' = blocked_domains
         /\ router_rules' = r.rules
         /\ UNCHANGED blocked_domains
    ELSE /\ Len(blocked_domains) < MaxList
         /\ blocked_domains' = Append(blocked_domains,
                                      BlockEntry(clean_domain, reason, created_by))
         /\ IF save_ok
            THEN /\ RuleCount(r.rules) <= MaxRules
                 /\ config_file' = blocked_domains'
                 /\ router_rules' = r.rules
                 /\ block_result' = res(TRUE, "blocked successfully", r.count, "apply")
            ELSE /\ block_result' = res(FALSE, "Failed to save blocked domains", 0, "none")
                 /\ UNCHANGED <<config_file, router_rules>>

\* add_blocked_domain(domain, reason, created_by); save_ok is whether
\* save_blocked_domains could write the file
add_blocked_domain(domain, reason, created_by, save_ok, o) ==
    LET clean_domain == CleanedForAdd[domain]
        res(ok, msg, count, invoked) ==
            [op |-> "add", domain |-> domain, ok |-> ok, msg |-> msg,
             count |-> count, invoked |-> invoked,
             attempted |-> IF invoked = "none" THEN <<>> ELSE <<clean_domain>>,
             failed |-> IF msg = "rules application pending" THEN <<clean_domain>> ELSE <<>>,
             nth |-> 1 - block_result.nth]
    IN
    IF IsBlocked(blocked_domains, clean_domain)
    THEN /\ block_result' = res(FALSE, "already blocked", 0, "none")
         /\ UNCHANGED <<blocked_domains, config_file, router_rules>>
    ELSE /\ Len(blocked_domains) < MaxList
         /\ blocked_domains' = Append(blocked_domains,
                                      BlockEntry(clean_domain, reason, created_by))
         /\ IF save_ok
            THEN LET r == apply_domain_block(router_rules, router_config, clean_domain, o) IN
                 /\ RuleCount(r.rules) <= MaxRules
                 /\ config_file' = blocked_domains'
                 /\ router_rules' = r.rules
                 /\ block_result' =
                        IF r.ok THEN res(TRUE, "blocked successfully", r.count, "apply")
                        ELSE res(TRUE, "rules application pending", 0, "apply")
            ELSE /\ block_result' = res(FALSE, "Failed to save blocked domains", 0, "none")
                 /\ UNCHANGED <<config_file, router_rules>>

\* (variant: the list is persisted and the fleet unblocked before the
\* not-found check)
remove_blocked_domain_eager(domain, save_ok, o) ==
    LET clean_domain == CleanedForRemove[domain]
        remaining == WithoutDomain(blocked_domains, clean_domain)
        r == remove_domain_block(router_rules, router_config, clean_domain, o)
    IN
    /\ blocked_domains' = remaining
    /\ config_file' = remaining
    /\ router_rules' = r.rules
    /\ block_result' =
           [op |-> "remove", domain |-> domain,
            ok |-> Len(remaining) # Len(blocked_domains),
            msg |-> IF Len(remaining) = Len(blocked_domains) THEN "not found"
                    ELSE "unblocked successfully",
            count |-> r.count, invoked |-> "remove", attempted |-> <<clean_domain>>,
            failed |-> <<>>, nth |-> 1 - block_result.nth]

\* remove_blocked_domain(domain, removed_by)
remove_blocked_domain(domain, save_ok, o) ==
    LET clean_domain == CleanedForRemove[domain]
        remaining == WithoutDomain(blocked_domains, clean_domain)
        res(ok, msg, count, invoked) ==
            [op |-> "remove", domain |-> domain, ok |-> ok, msg |-> msg,
             count |-> count, invoked |-> invoked,
             attempted |-> IF invoked = "none" THEN <<>> ELSE <<clean_domain>>,
             failed |-> IF msg = "rules removal pending" THEN <<clean_domain>> ELSE <<>>,
             nth |-> 1 - block_result.nth]
    IN
    /\ blocked_domains' = remaining
    /\ IF Len(remaining) = Len(blocked_domains)
       THEN /\ block_result' = res(FALSE, "not found", 0, "none")
            /\ UNCHANGED <<config_file, router_rules>>
       ELSE IF save_ok
       THEN LET r == remove_domain_block(router_rules, router_config, clean_domain, o) IN
            /\ config_file' = remaining
            /\ router_rules' = r.rules
            /\ block_result' =
                   IF r.ok THEN res(TRUE, "unblocked successfully", r.count, "remove")
                   ELSE res(TRUE, "rules removal pending", 0, "remove")
       ELSE /\ block_result' = res(FALSE, "Failed to save changes", 0, "none")
            /\ UNCHANGED <<config_file, router_rules>>

RECURSIVE ReapplyLoop_Aborting(_, _, _, _, _, _, _)
\* (variant: the loop stops at the first domain whose application fails)
ReapplyLoop_Aborting(rules, list, i, total_applied, failed_domains, attempted, outcomes) ==
    IF i > Len(list) \/ failed_domains # <<>>
    THEN [rules |-> rules, total_applied |-> total_applied,
          failed_domains |-> failed_domains, attempted |-> attempted]
    ELSE IF list[i].status # "active"
    THEN ReapplyLoop_Aborting(rules, list, i + 1, total_applied, failed_domains, attempted,
                              outcomes)
    ELSE LET r == apply_domain_block(rules, router_config, list[i].domain, outcomes[i]) IN
         ReapplyLoop_Aborting(r.rules, list, i + 1,
                     IF r.ok THEN total_applied + r.count ELSE total_applied,
                     IF r.ok THEN failed_domains ELSE Append(failed_domains, list[i].domain),
                     Append(attempted, list[i].domain), outcomes)

RECURSIVE ReapplyLoop(_, _, _, _, _, _, _)
\* the loop over the entries of reapply_all_rules; outcomes[i] is how the
\* fleet-wide call for entry i goes
ReapplyLoop(rules, list, i, total_applied, failed_domains, attempted, outcomes) ==
    IF i > Len(list)
    THEN [rules |-> rules, total_applied |-> total_applied,
          failed_domains |-> failed_domains, attempted |-> attempted]
    ELSE IF list[i].status # "active"
    THEN ReapplyLoop(rules, list, i + 1, total_applied, failed_domains, attempted, outcomes)
    ELSE LET r == apply_domain_block(rules, router_config, list[i].domain, outcomes[i]) IN
         ReapplyLoop(r.rules, list, i + 1,
                     IF r.ok THEN total_applied + r.count ELSE total_applied,
                     IF r.ok THEN failed_domains ELSE Append(failed_domains, list[i].domain),
                     Append(attempted, list[i].domain), outcomes)

\* the message of reapply_all_rules
ReapplyMessage(total_applied, failed_domains) ==
    IF failed_domains # <<>>
    THEN "Applied " \o ToString(total_applied) \o " rules, failed: "
             \o Join(", ", failed_domains)
    ELSE "Successfully applied " \o ToString(total_applied) \o " blocking rules"

\* reapply_all_rules()
reapply_all_rules(outcomes) ==
    LET r == ReapplyLoop(router_rules, blocked_domains, 1, 0, <<>>, <<>>, outcomes) IN
    /\ RuleCount(r.rules) <= MaxRules
    /\ router_rules' = r.rules
    /\ block_result' =
           [op |-> "reapply", domain |-> "", ok |-> r.failed_domains = <<>>,
            msg |-> ReapplyMessage(r.total_applied, r.failed_domains),
            count |-> r.total_applied, invoked |-> "apply",
            attempted |-> r.attempted, failed |-> r.failed_domains,
            nth |-> 1 - block_result.nth]
    /\ UNCHANGED <<blocked_domains, config_file>>

\* a caller re-applies every rule
ReapplyAllRules ==
    \E outcomes \in [1..Len(blocked_domains) -> OutcomesUnder(router_config, fleet)] :
        /\ reapply_all_rules(outcomes)
        /\ UNCHANGED <<auxVars, router_config, fleet, now, registryVars, managerVars>>

\* block_result of a direct call of apply_domain_block or remove_domain_block:
\* what it returned, the device list it fetched, and the commands it sent
FleetCall(op, domain, devices, r) ==
    [op |-> op, domain |-> domain, ok |-> r.ok, msg |-> "", count |-> r.count,
     invoked |-> "none", attempted |-> <<>>, failed |-> <<>>,
     devices |-> devices, commands |-> r.commands, accepted |-> r.accepted,
     nth |-> 1 - block_result.nth]

\* apply_domain_block(domain), called on the manager
ApplyDomainBlock ==
    \E domain \in {"example.com", "test.org"}, o \in OutcomesUnder(router_config, fleet) :
        LET r == apply_domain_block(router_rules, router_config, domain, o) IN
        /\ RuleCount(r.rules) <= MaxRules
        /\ router_rules' = r.rules
        /\ block_result' = FleetCall("apply_domain_block", domain, GetDiscoveredDevices(o), r)
        /\ UNCHANGED <<blocked_domains, config_file, auxVars, router_config, fleet, now,
                       registryVars, managerVars>>

\* remove_domain_block(domain), called on the manager
RemoveDomainBlock ==
    \E domain \in {"example.com", "test.org"}, o \in OutcomesUnder(router_config, fleet) :
        LET r == remove_domain_block(router_rules, router_config, domain, o) IN
        /\ router_rules' = r.rules
        /\ block_result' = FleetCall("remove_domain_block", domain, GetDiscoveredDevices(o), r)
        /\ UNCHANGED <<blocked_domains, config_file, auxVars, router_config, fleet, now,
                       registryVars, managerVars>>

\* a caller adds a domain
AddBlockedDomain(inputs, reasons) ==
    \E domain \in inputs, reason \in reasons, save_ok \in BOOLEAN,
       o \in OutcomesUnder(router_config, fleet) :
        /\ add_blocked_domain(domain, reason, "admin", save_ok, o)
        /\ UNCHANGED <<auxVars, router_config, fleet, now, registryVars, managerVars>>

\* a caller removes a domain
RemoveBlockedDomain(inputs) ==
    \E domain \in inputs, save_ok \in BOOLEAN, o \in OutcomesUnder(router_config, fleet) :
        /\ remove_blocked_domain(domain, save_ok, o)
        /\ UNCHANGED <<auxVars, router_config, fleet, now, registryVars, managerVars>>

\* time passes
Tick ==
    /\ now < MaxTime
    /\ now' = now + 1
    /\ UNCHANGED <<auxVars, blockVars, registryVars, managerVars>>

(***************************************************************************)
(* NetworkDiscovery: the classifier and the device registry                *)
(***************************************************************************)
\* Python's None, where a string may stand
None == "<None>"

\* value or ''
OrEmpty(value) == IF value = None THEN "" ELSE value

\* self.device_patterns, in the order the dict is written
device_patterns ==
    << [type |-> "printer", patterns |-> <<"printer", "canon", "hp", "epson", "brother", "xerox", "lexmark">>],
       [type |-> "router", patterns |-> <<"router", "gateway", "linksys", "netgear", "asus", "tp-link", "dlink">>],
       [type |-> "camera", patterns |-> <<"camera", "cam", "hikvision", "dahua", "axis", "foscam">>],
       [type |-> "iot", patterns |-> <<"sensor", "thermostat", "smart", "alexa", "google", "nest">>],
       [type |-> "server", patterns |-> <<"server", "nas", "synology", "qnap", "freenas">>],
       [type |-> "mobile", patterns |-> <<"android", "iphone", "samsung", "pixel", "oneplus">>],
       [type |-> "laptop", patterns |-> <<"laptop", "macbook", "thinkpad", "latitude", "inspiron">>],
       [type |-> "desktop", patterns |-> <<"desktop", "optiplex", "precision", "workstation">>] >>

\* the numbers int(port_info.split('/')[0]) yields, a ValueError skipped
PortNumbers(ports) ==
    { IntOf(BeforeFirst(ports[i], "/")) :
        i \in {j \in 1..Len(ports) : IsInt(BeforeFirst(ports[j], "/"))} }

\* (variant: the last category of the table with a keyword in the text wins)
classify_device_LastMatch(device_info) ==
    LET hostname == Lower(OrEmpty(device_info.hostname))
        ports == Lower(Join(" ", device_info.ports))
        vendor == Lower(OrEmpty(device_info.vendor))
        text_to_analyze == hostname \o " " \o ports \o " " \o vendor
        Matches(k) == \E j \in 1..Len(device_patterns[k].patterns) :
                          Contains(text_to_analyze, device_patterns[k].patterns[j])
    IN
    IF \E k \in 1..Len(device_patterns) : Matches(k)
    THEN Title(device_patterns[CHOOSE k \in 1..Len(device_patterns) :
                                   Matches(k) /\ \A h \in (k + 1)..Len(device_patterns) : ~Matches(h)].type)
    ELSE "Unknown Device"

\* classify_device(device_info)
classify_device(device_info) ==
    LET hostname == Lower(OrEmpty(device_info.hostname))
        ports == Lower(Join(" ", device_info.ports))
        vendor == Lower(OrEmpty(device_info.vendor))
        text_to_analyze == hostname \o " " \o ports \o " " \o vendor
        Matches(k) == \E j \in 1..Len(device_patterns[k].patterns) :
                          Contains(text_to_analyze, device_patterns[k].patterns[j])
        port_numbers == PortNumbers(device_info.ports)
    IN
    IF \E k \in 1..Len(device_patterns) : Matches(k)
    THEN Title(device_patterns[CHOOSE k \in 1..Len(device_patterns) :
                                   Matches(k) /\ \A h \in 1..(k - 1) : ~Matches(h)].type)
    ELSE IF 80 \in port_numbers \/ 443 \in port_numbers
    THEN (IF 22 \in port_numbers THEN "Server"
          ELSE IF 631 \in port_numbers THEN "Printer"
          ELSE "Web Device")
    ELSE IF 22 \in port_numbers THEN "Linux Server"
    ELSE IF 3389 \in port_numbers THEN "Windows Server"
    ELSE IF 139 \in port_numbers \/ 445 \in port_numbers THEN "Windows Device"
    ELSE IF 1883 \in port_numbers \/ 8883 \in port_numbers THEN "IoT Device"
    ELSE "Unknown Device"

\* get_behavior_tag(device_info)
get_behavior_tag(device_info) ==
    LET ports == device_info.ports
        hostname == Lower(OrEmpty(device_info.hostname))
        AnyPort(text) == \E i \in 1..Len(ports) : Contains(ports[i], text)
    IN
    IF AnyPort("22") THEN "Linux Admin Device"
    ELSE IF AnyPort("3389") THEN "Windows Remote Access"
    ELSE IF AnyPort("1883") \/ AnyPort("8883") THEN "IoT MQTT Device"
    ELSE IF Contains(hostname, "printer") THEN "Network Printer"
    ELSE IF Contains(hostname, "camera") \/ Contains(hostname, "cam") THEN "Security Camera"
    ELSE IF AnyPort("80") \/ AnyPort("443") THEN "Web Client"
    ELSE "Standard Device"

\* The signals of the observations handed to the classifier: host names,
\* open-service descriptors and vendors.
ClassifierInputs ==
    [hostname : {None, "printer-finance", "webcam-printer", "Gateway-NAS",
                 "SmartPhone-Pixel", "ThinkPad-Workstation", "dev-box"},
     ports : {<<>>, <<"631/tcp (ipp)">>, <<"80/tcp (http)", "631/tcp (ipp)">>,
              <<"22/tcp (ssh)", "443/tcp (https)">>, <<"443/tcp (https)">>,
              <<"22/tcp (ssh)">>, <<"3389/tcp">>, <<"139/tcp (netbios-ssn)", "445/tcp">>,
              <<"8883/tcp (secure-mqtt)">>, <<"domain/udp">>, <<"8009/tcp (ajp13)">>,
              <<"5800/tcp (vnc-http)", "5900/tcp (vnc)">>},
     vendor : {None, "Unknown", "Canon Inc."}]

\* each of them with its classify_device and get_behavior_tag
Classifications ==
    { [observation |-> d, device_type |-> classify_device(d),
       behavior_tag |-> get_behavior_tag(d)] : d \in ClassifierInputs }

\* classified before any observation was classified
NothingClassified ==
    [op |-> "none", observation |-> [hostname |-> None, ports |-> <<>>, vendor |-> None],
     device_type |-> "", behavior_tag |-> "", nth |-> 0]

\* classify_device(device_info) and get_behavior_tag(device_info) of one
\* observation, as the scan does for every device it found
ClassifyDevice ==
    /\ \E c \in Classifications :
          classified' = [op |-> "classify", observation |-> c.observation,
                         device_type |-> c.device_type,
                         behavior_tag |-> c.behavior_tag,
                         nth |-> 1 - classified.nth]
    /\ UNCHANGED <<firewallVars, profileVars, blockVars, now, registryVars, managerVars>>

\* The observations a scan strategy yields.
ObsPrinter ==
    [ip |-> "192.168.1.50", mac |-> "AA:BB:CC:00:11:22", hostname |-> "printer-finance",
     vendor |-> None, os |-> None, ports |-> <<"631/tcp (ipp)">>]
\* the same device after a DHCP renewal, its name no longer resolved
ObsPrinterMoved ==
    [ip |-> "192.168.1.77", mac |-> "AA:BB:CC:00:11:22", hostname |-> None,
     vendor |-> "Unknown", os |-> "Linux", ports |-> <<"22/tcp (ssh)", "80/tcp (http)">>]
ObsLaptop ==
    [ip |-> "192.168.1.20", mac |-> "00:1B:44:11:3A:B7", hostname |-> None,
     vendor |-> "Dell Inc.", os |-> None, ports |-> <<>>]
\* a host that answered a ping and is missing from the ARP table
ObsNoMac ==
    [ip |-> "192.168.1.99", mac |-> None, hostname |-> None,
     vendor |-> None, os |-> None, ports |-> <<>>]
Observations == {ObsPrinter, ObsPrinterMoved, ObsLaptop, ObsNoMac}

\* What one run of a scan strategy returns.
ScanResults ==
    { <<>>, <<ObsPrinter>>, <<ObsPrinterMoved>>, <<ObsNoMac>>,
      <<ObsPrinter, ObsLaptop>>, <<ObsNoMac, ObsLaptop>>, <<ObsPrinter, ObsPrinterMoved>> }

\* classify_device of every observation, computed once
DeviceTypeOf == [d \in Observations |-> classify_device(d)]

\* (variant: the test for a missing MAC is inverted)
HasNoMac_Inverted(device) == ~(device.mac = None \/ device.mac = "")

\* not device.get('mac')
HasNoMac(device) == device.mac = None \/ device.mac = ""

\* SELECT id FROM discovered_devices WHERE mac_address = ?
Existing(rows, mac) == {i \in 1..Len(rows) : rows[i].mac_address = mac}

\* (variant: the update also stamps first_seen)
UpdateDevice_StampsFirstSeen(row, device, t) ==
    [row EXCEPT !.ip_address = device.ip, !.hostname = device.hostname,
                !.vendor = device.vendor, !.device_type = DeviceTypeOf[device],
                !.first_seen = t, !.last_seen = t,
                !.ports_open = Join(",", device.ports), !.os_guess = device.os]

\* (variant: the update marks the row)
UpdateDevice_MarksStatus(row, device, t) ==
    [row EXCEPT !.ip_address = device.ip, !.hostname = device.hostname,
                !.vendor = device.vendor, !.device_type = DeviceTypeOf[device],
                !.last_seen = t, !.ports_open = Join(",", device.ports),
                !.os_guess = device.os, !.status = "updated"]

\* UPDATE discovered_devices SET ... last_seen = CURRENT_TIMESTAMP ... WHERE mac_address = ?
UpdateDevice(row, device, t) ==
    [row EXCEPT !.ip_address = device.ip, !.hostname = device.hostname,
                !.vendor = device.vendor, !.device_type = DeviceTypeOf[device],
                !.last_seen = t, !.ports_open = Join(",", device.ports),
                !.os_guess = device.os]

\* INSERT INTO discovered_devices (mac_address, ip_address, ...): id from
\* AUTOINCREMENT, first_seen, last_seen and status from the column defaults
InsertDevice(id, device, t) ==
    [id |-> id, mac_address |-> device.mac, ip_address |-> device.ip,
     hostname |-> device.hostname, vendor |-> device.vendor,
     device_type |-> DeviceTypeOf[device], first_seen |-> t, last_seen |-> t,
     ports_open |-> Join(",", device.ports), os_guess |-> device.os,
     status |-> "active"]

\* A connection's view of the database: the rows, the AUTOINCREMENT counter
\* and whether a statement has raised.
Database(rows, id) == [rows |-> rows, next_id |-> id, raised |-> FALSE]

\* One turn of the loop over devices of save_to_local_db, the SELECT having
\* answered `exists`: an UPDATE, or an INSERT that column mac_address being
\* UNIQUE makes raise sqlite3.IntegrityError when the MAC has a row.
SaveDeviceSeen(db, device, t, exists) ==
    IF HasNoMac(device) THEN db
    ELSE IF exists
    THEN [db EXCEPT !.rows = [i \in 1..Len(db.rows) |->
                                 IF i \in Existing(db.rows, device.mac)
                                 THEN UpdateDevice(db.rows[i], device, t)
                                 ELSE db.rows[i]]]
    ELSE IF Existing(db.rows, device.mac) # {}
    THEN [db EXCEPT !.raised = TRUE]
    ELSE [db EXCEPT !.rows = Append(db.rows, InsertDevice(db.next_id, device, t)),
                    !.next_id = db.next_id + 1]

\* one turn of the loop, SELECT and write together
SaveDevice(db, device, t) ==
    SaveDeviceSeen(db, device, t, Existing(db.rows, device.mac) # {})

RECURSIVE SaveDevices(_, _, _)
\* the loop over devices of save_to_local_db
SaveDevices(db, devices, t) ==
    IF Len(devices) = 0 \/ db.raised THEN db
    ELSE SaveDevices(SaveDevice(db, devices[1], t), Tail(devices), t)

\* INSERT INTO scan_history (devices_found, scan_method) VALUES (?, "automated")
ScanEvent(devices, t) ==
    [scan_time |-> t, devices_found |-> Len(devices), scan_method |-> "automated"]

\* the MACs a list of observations carries
MacsOf(devices) == {devices[i].mac : i \in 1..Len(devices)} \ {None, ""}

\* (variant: the records of the devices missing from the scan are marked Offline)
save_to_local_db_MarksAbsentOffline(devices) ==
    LET db == SaveDevices(Database(discovered_devices, next_id), devices, now) IN
    /\ Len(scan_history) < MaxScans
    /\ discovered_devices' =
           [i \in 1..Len(db.rows) |->
               IF db.rows[i].mac_address \in MacsOf(devices) THEN db.rows[i]
               ELSE [db.rows[i] EXCEPT !.status = "Offline"]]
    /\ next_id' = db.next_id
    /\ scan_history' = Append(scan_history, ScanEvent(devices, now))
    /\ reconciled' = reconciled \cup MacsOf(devices)

\* save_to_local_db(devices), from connect to commit
save_to_local_db(devices) ==
    LET db == SaveDevices(Database(discovered_devices, next_id), devices, now) IN
    /\ Len(scan_history) < MaxScans
    /\ discovered_devices' = db.rows
    /\ next_id' = db.next_id
    /\ scan_history' = Append(scan_history, ScanEvent(devices, now))
    /\ reconciled' = reconciled \cup MacsOf(devices)

\* a caller reconciles the result of a scan
Reconcile ==
    \E devices \in ScanResults :
        /\ save_to_local_db(devices)
        /\ UNCHANGED <<auxVars, blockVars, now, managerVars>>

(***************************************************************************)
(* NetworkDiscovery: scanning                                              *)
(***************************************************************************)
\* What a scan strategy returns in the specification of the threads; the
\* empty list is also what a strategy that fails returns.
DiscoveryScanResults == { <<>>, <<ObsPrinter>>, <<ObsNoMac, ObsLaptop>> }

\* the branch perform_network_scan takes
StrategyUsed ==
    IF NMAP_AVAILABLE THEN "nmap" ELSE IF SCAPY_AVAILABLE THEN "scapy" ELSE "ping sweep"

\* [d for d in devices if d.get('mac')]
DevicesWithMac(devices) == LET Keep(d) == ~(d.mac = None \/ d.mac = "") IN SelectSeq(devices, Keep)

\* perform_network_scan, the strategy having returned `found`
perform_network_scan(found) == DevicesWithMac(found)

\* the strategies in the order perform_network_scan tries them
Strategies == <<"nmap", "scapy", "ping sweep">>

\* What one call of scan_with_nmap, scan_with_scapy or scan_with_ping_sweep
\* would return: the hosts it finds, or the empty list, also when it fails
\* (each catches its own exceptions and returns what it has).
StrategyOutcomes(strategy) ==
    LET hosts == CASE strategy = "nmap" -> <<ObsPrinter>>
                   [] strategy = "scapy" -> <<ObsLaptop>>
                   [] OTHER -> <<ObsNoMac, ObsPrinterMoved>>
    IN {[failed |-> FALSE, found |-> hosts], [failed |-> FALSE, found |-> <<>>],
        [failed |-> TRUE, found |-> <<>>]}

\* what the three strategies would return during one scan
ScanOffers ==
    { offer \in [{"nmap", "scapy", "ping sweep"} ->
                    UNION {StrategyOutcomes(Strategies[k]) : k \in 1..3}] :
        \A k \in 1..3 : offer[Strategies[k]] \in StrategyOutcomes(Strategies[k]) }

\* (variant: a strategy that returns no devices lets the next one run)
ScanBranches_FallThroughOnEmpty(offer) ==
    LET nmap == IF NMAP_AVAILABLE
                THEN [devices |-> offer["nmap"].found, ran |-> <<"nmap">>]
                ELSE [devices |-> <<>>, ran |-> <<>>]
        scapy == IF nmap.devices = <<>> /\ SCAPY_AVAILABLE
                 THEN [devices |-> offer["scapy"].found, ran |-> Append(nmap.ran, "scapy")]
                 ELSE nmap
    IN
    IF scapy.devices = <<>>
    THEN [devices |-> offer["ping sweep"].found, ran |-> Append(scapy.ran, "ping sweep")]
    ELSE scapy

\* the if / elif / else of perform_network_scan: the list the branch taken
\* assigns to devices and the strategies called
ScanBranches(offer) ==
    IF NMAP_AVAILABLE THEN [devices |-> offer["nmap"].found, ran |-> <<"nmap">>]
    ELSE IF SCAPY_AVAILABLE THEN [devices |-> offer["scapy"].found, ran |-> <<"scapy">>]
    ELSE [devices |-> offer["ping sweep"].found, ran |-> <<"ping sweep">>]

\* perform_network_scan() called on the engine: the call joins scan_calls
\* with the strategies it called and the list it returned
PerformNetworkScan ==
    /\ Len(scan_calls) < MaxCalls
    /\ \E offer \in ScanOffers :
          LET branch == ScanBranches(offer)
              devices == perform_network_scan(branch.devices)
          IN scan_calls' = Append(scan_calls,
                                  [count |-> Len(devices), strategy |-> StrategyUsed,
                                   ran |-> branch.ran, returned |-> devices,
                                   offer |-> offer])
    /\ UNCHANGED <<auxVars, blockVars, now, registryVars, engines, real_discovery,
                   mock_discovery, current_mode, handler, NMAP_AVAILABLE, SCAPY_AVAILABLE>>

RECURSIVE SaveDevicesSeen(_, _, _, _)
\* The loop over devices of save_to_local_db when other connections write
\* between its first SELECT, which answered `exists`, and its first write,
\* which opens the transaction: from there on the connection holds the
\* write lock until it commits.
SaveDevicesSeen(db, devices, t, exists) ==
    IF Len(devices) = 0 THEN db
    ELSE IF HasNoMac(devices[1]) THEN SaveDevicesSeen(db, Tail(devices), t, exists)
    ELSE SaveDevices(SaveDeviceSeen(db, devices[1], t, exists), Tail(devices), t)

\* the answer of the first SELECT of save_to_local_db(devices)
FirstSelect(devices) ==
    LET with_mac == DevicesWithMac(devices) IN
    Len(with_mac) > 0 /\ Existing(discovered_devices, with_mac[1].mac) # {}

(***************************************************************************)
(* MockNetworkDiscovery                                                    *)
(***************************************************************************)
\* The MAC addresses generate_mac_address draws, in the order the seeding
\* takes its templates, and the addresses generate_ip_address draws.
MockMacs == <<"00:1B:44:0A:0B:0C", "E8:DE:27:1A:2B:3C">>
MockMacSet == {MockMacs[i] : i \in 1..Len(MockMacs)}
MockIps == {"192.168.1.20", "10.0.0.21"}

\* a MockNetworkDiscovery.discovered_devices without devices
EmptyMap == [mac \in {} |-> None]

\* create_mock_device: the fields that change; the template's are constant
MockDevice(ip) == [ip |-> ip, first_seen |-> now, last_seen |-> now, status |-> "Active"]

\* the seeding of perform_mock_scan, ips being the addresses drawn
SeedDevices(ips) ==
    [mac \in {MockMacs[i] : i \in 1..Len(ips)} |->
        MockDevice(ips[CHOOSE i \in 1..Len(ips) : MockMacs[i] = mac])]

\* What the random draws of simulate_device_changes do to one device:
\* "ip" with the new address, "offline", "online" or "none".
Changes == [kind : {"offline", "online", "none"}, ip : {""}] \cup [kind : {"ip"}, ip : MockIps]

\* (variant: if / if instead of if / elif, a device that changes address
\* may go offline in the same pass)
ChangeDevice_AddressAndOffline(device, change) ==
    IF change.kind = "ip"
    THEN [device EXCEPT !.ip = change.ip, !.last_seen = now, !.status = "Offline"]
    ELSE IF change.kind = "offline" THEN [device EXCEPT !.status = "Offline"]
    ELSE IF change.kind = "online" /\ device.status = "Offline"
    THEN [device EXCEPT !.status = "Active", !.last_seen = now]
    ELSE device

\* the if / elif / elif of simulate_device_changes on one device
ChangeDevice(device, change) ==
    IF change.kind = "ip" THEN [device EXCEPT !.ip = change.ip, !.last_seen = now]
    ELSE IF change.kind = "offline" THEN [device EXCEPT !.status = "Offline"]
    ELSE IF change.kind = "online" /\ device.status = "Offline"
    THEN [device EXCEPT !.status = "Active", !.last_seen = now]
    ELSE device

\* simulate_device_changes, draws[mac] being what the draws do to mac
simulate_device_changes(map, draws) ==
    [mac \in DOMAIN map |-> ChangeDevice(map[mac], draws[mac])]

\* the draws that differ in effect on the map
DrawsFor(map) ==
    { draws \in [DOMAIN map -> Changes] :
        \A mac \in DOMAIN map : draws[mac].kind = "online" => map[mac].status = "Offline" }

\* add_new_devices: nothing, or a device under the MAC drawn
AddNewDevices == {[add |-> FALSE, mac |-> "", ip |-> ""]} \cup
                 [add : {TRUE}, mac : MockMacSet, ip : MockIps]

\* if random.random() < 0.1 and len(self.discovered_devices) < 25:
AddNewCheck(map, new) == new.add /\ Cardinality(DOMAIN map) < MockCapacity

\* self.discovered_devices[new_device["mac"]] = new_device
AddNewInsert(map, new) ==
    [mac \in DOMAIN map \cup {new.mac} |->
        IF mac = new.mac THEN MockDevice(new.ip) ELSE map[mac]]

add_new_devices(map, new) ==
    IF AddNewCheck(map, new) THEN AddNewInsert(map, new) ELSE map

\* the map perform_mock_scan leaves
perform_mock_scan(map, seed_ips, draws, new) ==
    LET seeded == IF DOMAIN map = {} THEN SeedDevices(seed_ips) ELSE map IN
    add_new_devices(simulate_device_changes(seeded, draws), new)

\* the list perform_mock_scan returns, macs being the MACs that can be drawn
ActiveDevicesIn(macs, map) ==
    LET Keep(mac) == mac \in DOMAIN map /\ map[mac].status = "Active" IN SelectSeq(macs, Keep)

ActiveDevices(map) == ActiveDevicesIn(MockMacs, map)

\* every way one perform_mock_scan may go on map
MockScans(map) ==
    UNION { { perform_mock_scan(map, seed_ips, draws, new) :
                draws \in DrawsFor(IF DOMAIN map = {} THEN SeedDevices(seed_ips) ELSE map),
                new \in AddNewDevices } :
            seed_ips \in IF DOMAIN map = {} THEN [1..MockSeed -> MockIps]
                         ELSE {<<>>} }

(***************************************************************************)
(* DiscoveryManager, the background loops and the scan-now handler         *)
(***************************************************************************)
\* NetworkDiscovery(...) or MockNetworkDiscovery(...), start_continuous_*
\* called: running set, the thread about to test its loop condition
NewEngine(kind) ==
    [kind |-> kind, running |-> TRUE, pc |-> "check", devices |-> <<>>,
     exists |-> FALSE, map |-> EmptyMap, posted |-> <<>>, failed |-> 0]

\* stop_scanning / stop_discovery of the engine at index e, None when 0
Stopped(engs, e) == IF e = 0 THEN engs ELSE [engs EXCEPT ![e].running = FALSE]

\* switch_to_real_discovery; created is whether NetworkDiscovery(...), which
\* opens the database and creates the tables, returned
switch_to_real_discovery(created) ==
    /\ Len(engines) < MaxEngines
    /\ IF created
       THEN /\ engines' = Append(Stopped(engines, mock_discovery), NewEngine("real"))
            /\ real_discovery' = Len(engines) + 1
            /\ current_mode' = "real"
       ELSE /\ engines' = Stopped(engines, mock_discovery)
            /\ UNCHANGED <<real_discovery, current_mode>>
    /\ UNCHANGED mock_discovery

\* switch_to_mock_discovery
switch_to_mock_discovery ==
    /\ Len(engines) < MaxEngines
    /\ engines' = Append(Stopped(engines, real_discovery), NewEngine("mock"))
    /\ mock_discovery' = Len(engines) + 1
    /\ current_mode' = "mock"
    /\ UNCHANGED real_discovery

SwitchToReal ==
    \E created \in BOOLEAN :
        /\ switch_to_real_discovery(created)
        /\ UNCHANGED <<auxVars, blockVars, now, registryVars, handler, scan_calls,
                       NMAP_AVAILABLE, SCAPY_AVAILABLE>>

SwitchToMock ==
    /\ switch_to_mock_discovery
    /\ UNCHANGED <<auxVars, blockVars, now, registryVars, handler, scan_calls,
                   NMAP_AVAILABLE, SCAPY_AVAILABLE>>

managerRest == <<real_discovery, mock_discovery, current_mode, handler,
                 NMAP_AVAILABLE, SCAPY_AVAILABLE>>

\* (variant: the loop condition is True, the flag is never read)
LoopCheck_IgnoresFlag(e) ==
    /\ engines[e].pc = "check"
    /\ engines' = [engines EXCEPT ![e].pc = "scanning"]
    /\ UNCHANGED <<auxVars, blockVars, now, registryVars, managerRest, scan_calls>>

\* while self.running: of scan_loop and discovery_loop
LoopCheck(e) ==
    /\ engines[e].pc = "check"
    /\ engines' = [engines EXCEPT ![e].pc = IF engines[e].running THEN "scanning" ELSE "done"]
    /\ UNCHANGED <<auxVars, blockVars, now, registryVars, managerRest, scan_calls>>

\* scan_loop: devices = self.perform_network_scan(); if devices:
LoopScan(e) ==
    /\ engines[e].kind = "real" /\ engines[e].pc = "scanning"
    /\ Len(scan_calls) < MaxCalls
    /\ \E found \in DiscoveryScanResults :
        LET devices == perform_network_scan(found) IN
        /\ engines' = [engines EXCEPT ![e].devices = devices,
                                      ![e].pc = IF Len(devices) > 0 THEN "select" ELSE "sleep"]
        /\ scan_calls' = Append(scan_calls, [count |-> Len(devices), strategy |-> StrategyUsed])
    /\ UNCHANGED <<auxVars, blockVars, now, registryVars, managerRest>>

\* scan_loop inside save_to_local_db: the first SELECT
LoopSelect(e) ==
    /\ engines[e].pc = "select"
    /\ engines' = [engines EXCEPT ![e].exists = FirstSelect(engines[e].devices),
                                  ![e].pc = "write"]
    /\ UNCHANGED <<auxVars, blockVars, now, registryVars, managerRest, scan_calls>>

\* (variant: the try is around the loop, an exception ends the thread)
LoopWrite_FailureEndsLoop(e) ==
    /\ engines[e].pc = "write"
    /\ LET db == SaveDevicesSeen(Database(discovered_devices, next_id), engines[e].devices,
                                 now, engines[e].exists) IN
       IF db.raised
       THEN /\ engines' = [engines EXCEPT ![e].pc = "done", ![e].devices = <<>>,
                                          ![e].exists = FALSE]
            /\ UNCHANGED registryVars
       ELSE /\ Len(scan_history) < MaxScans
            /\ discovered_devices' = db.rows
            /\ next_id' = db.next_id
            /\ scan_history' = Append(scan_history, ScanEvent(engines[e].devices, now))
            /\ reconciled' = reconciled \cup MacsOf(engines[e].devices)
            /\ engines' = [engines EXCEPT ![e].pc = "sync"]
    /\ UNCHANGED <<auxVars, blockVars, now, managerRest, scan_calls>>

\* scan_loop inside save_to_local_db: the writes and the commit, or the
\* exception that takes the loop to its except clause
LoopWrite(e) ==
    /\ engines[e].pc = "write"
    /\ LET db == SaveDevicesSeen(Database(discovered_devices, next_id), engines[e].devices,
                                 now, engines[e].exists) IN
       IF db.raised
       THEN /\ engines' = [engines EXCEPT ![e].pc = "backoff", ![e].devices = <<>>,
                                          ![e].exists = FALSE]
            /\ UNCHANGED registryVars
       ELSE /\ Len(scan_history) < MaxScans
            /\ discovered_devices' = db.rows
            /\ next_id' = db.next_id
            /\ scan_history' = Append(scan_history, ScanEvent(engines[e].devices, now))
            /\ reconciled' = reconciled \cup MacsOf(engines[e].devices)
            /\ engines' = [engines EXCEPT ![e].pc = "sync"]
    /\ UNCHANGED <<auxVars, blockVars, now, managerRest, scan_calls>>

\* What requests.post gives sync_with_dashboard: a response with status 200,
\* a response with another status, or a requests.exceptions.RequestException
PostAnswers == {"200", "500", "RequestException"}

\* the except clause around requests.post: except Exception in the real
\* engine, except requests.exceptions.RequestException in the simulated one
Absorbed(kind, answer) ==
    \/ answer \in {"200", "500"}
    \/ kind \in {"real", "mock"} /\ answer = "RequestException"

\* the mac of a device of the scan: the real engine's devices are dicts, the
\* simulated engine's are read from its map by mac
SyncMac(kind, device) == IF kind = "real" THEN device.mac ELSE device

\* (variant: the first request that fails or is not answered 200 ends the sync)
RECURSIVE SyncLoop_StopsAtFailure(_, _, _, _)
SyncLoop_StopsAtFailure(kind, devices, answers, i) ==
    IF i > Len(devices) THEN [posted |-> <<>>, failed |-> 0, raised |-> FALSE]
    ELSE IF kind = "real" /\ devices[i].mac = None
    THEN SyncLoop_StopsAtFailure(kind, devices, answers, i + 1)
    ELSE LET rest == IF answers[i] = "200"
                     THEN SyncLoop_StopsAtFailure(kind, devices, answers, i + 1)
                     ELSE [posted |-> <<>>, failed |-> 0, raised |-> TRUE]
         IN  [posted |-> <<SyncMac(kind, devices[i])>> \o rest.posted,
              failed |-> rest.failed + (IF answers[i] = "200" THEN 0 ELSE 1),
              raised |-> rest.raised]

\* for device in devices: of sync_with_dashboard, from the device at i: the
\* macs of the requests sent, how many of them failed or were not answered
\* 200, and whether an exception left the method
RECURSIVE SyncLoop(_, _, _, _)
SyncLoop(kind, devices, answers, i) ==
    IF i > Len(devices) THEN [posted |-> <<>>, failed |-> 0, raised |-> FALSE]
    ELSE IF kind = "real" /\ devices[i].mac = None
    THEN SyncLoop(kind, devices, answers, i + 1)
    ELSE LET rest == IF Absorbed(kind, answers[i])
                     THEN SyncLoop(kind, devices, answers, i + 1)
                     ELSE [posted |-> <<>>, failed |-> 0, raised |-> TRUE]
         IN  [posted |-> <<SyncMac(kind, devices[i])>> \o rest.posted,
              failed |-> rest.failed + (IF answers[i] = "200" THEN 0 ELSE 1),
              raised |-> rest.raised]

sync_with_dashboard(kind, devices, answers) == SyncLoop(kind, devices, answers, 1)

\* sync_with_dashboard of the loops, one answer of the dashboard for each
\* device; the iteration's locals are dead from here on
LoopSync(e) ==
    /\ engines[e].pc = "sync"
    /\ \E answers \in [1..Len(engines[e].devices) -> PostAnswers] :
        LET r == sync_with_dashboard(engines[e].kind, engines[e].devices, answers) IN
        engines' = [engines EXCEPT ![e].pc = IF r.raised THEN "backoff" ELSE "sleep",
                                   ![e].posted = r.posted, ![e].failed = r.failed,
                                   ![e].devices = <<>>, ![e].exists = FALSE]
    /\ UNCHANGED <<auxVars, blockVars, now, registryVars, managerRest, scan_calls>>

\* time.sleep(self.scan_interval), and the sleep of the except clause (5
\* seconds in scan_loop, 10 in discovery_loop); the requests are over
LoopSleep(e) ==
    /\ engines[e].pc \in {"sleep", "backoff"}
    /\ engines' = [engines EXCEPT ![e].pc = "check", ![e].posted = <<>>, ![e].failed = 0]
    /\ UNCHANGED <<auxVars, blockVars, now, registryVars, managerRest, scan_calls>>

\* discovery_loop: devices = self.perform_mock_scan(); if devices:
MockLoopScan(e) ==
    /\ engines[e].kind = "mock" /\ engines[e].pc = "scanning"
    /\ \E map \in MockScans(engines[e].map) :
        engines' = [engines EXCEPT ![e].map = map,
                                   ![e].devices = ActiveDevices(map),
                                   ![e].pc = IF Len(ActiveDevices(map)) > 0 THEN "sync"
                                             ELSE "sleep"]
    /\ UNCHANGED <<auxVars, blockVars, now, registryVars, managerRest, scan_calls>>

\* discovery_loop: perform_mock_scan raises (RuntimeError: dictionary changed
\* size during iteration) when a /api/scan-now request adds a device to the
\* map the loop is iterating over
MockLoopRaise(e) ==
    /\ engines[e].kind = "mock" /\ engines[e].pc = "scanning"
    /\ current_mode = "mock" /\ mock_discovery = e
    /\ engines' = [engines EXCEPT ![e].pc = "backoff"]
    /\ UNCHANGED <<auxVars, blockVars, now, registryVars, managerRest, scan_calls>>

\* no /api/scan-now request in flight
HandlerIdle == [pc |-> "idle", devices |-> <<>>, exists |-> FALSE]

handlerRest == <<real_discovery, mock_discovery, current_mode, NMAP_AVAILABLE, SCAPY_AVAILABLE>>

\* ---- perform_mock_scan statement by statement, for the loop thread and
\* ---- the /api/scan-now request thread running it on the same engine
\* the MACs generate_mac_address can draw
MockMacPool == MockMacs \o <<"00:50:56:4D:5E:6F">>
MockMacPoolSet == {MockMacPool[i] : i \in 1..Len(MockMacPool)}

\* what add_new_devices draws: no new device, or one under a MAC and an IP
AddNewDraws == {[add |-> FALSE, mac |-> "", ip |-> ""]} \cup
               [add : {TRUE}, mac : MockMacPoolSet, ip : MockIps]

\* perform_mock_scan up to the test of add_new_devices: the maps the seeding
\* of an empty map and simulate_device_changes may leave
MockScanStarts(map) ==
    UNION { { simulate_device_changes(
                  IF DOMAIN map = {} THEN SeedDevices(seed_ips) ELSE map, draws) :
                draws \in DrawsFor(IF DOMAIN map = {} THEN SeedDevices(seed_ips) ELSE map) } :
            seed_ips \in IF DOMAIN map = {} THEN [1..MockSeed -> MockIps] ELSE {<<>>} }

\* scan_calls keeps the perform_mock_scan that returned last: the thread
\* that ran it and the list it returned
LastCall(thread, map) ==
    << [count |-> Len(ActiveDevicesIn(MockMacPool, map)), strategy |-> "mock",
        thread |-> thread, returned |-> ActiveDevicesIn(MockMacPool, map)] >>

\* add_new_devices between its test and its assignment: the device created
\* and device_id = len(self.discovered_devices) + 1
NewDevice(map, new) == [new |-> new, device_id |-> Cardinality(DOMAIN map) + 1]

\* discovery_loop: perform_mock_scan up to the test of add_new_devices;
\* when the test fails, the rest of the scan as well
MockLoopBegin(e) ==
    /\ engines[e].kind = "mock" /\ engines[e].pc = "scanning"
    /\ \E changed \in MockScanStarts(engines[e].map), new \in AddNewDraws :
        IF AddNewCheck(changed, new)
        THEN /\ engines' = [engines EXCEPT ![e].map = changed, ![e].pc = "adding",
                                           ![e].devices = <<NewDevice(changed, new)>>]
             /\ UNCHANGED scan_calls
        ELSE LET returned == ActiveDevicesIn(MockMacPool, changed) IN
             /\ engines' = [engines EXCEPT ![e].map = changed,
                                           ![e].devices = returned,
                                           ![e].pc = IF Len(returned) > 0 THEN "sync"
                                                     ELSE "sleep"]
             /\ scan_calls' = LastCall("loop", changed)
    /\ UNCHANGED <<auxVars, blockVars, now, registryVars, managerRest>>

\* discovery_loop: the assignment of add_new_devices and the rest of the scan
MockLoopInsert(e) ==
    /\ engines[e].kind = "mock" /\ engines[e].pc = "adding"
    /\ LET map == AddNewInsert(engines[e].map, engines[e].devices[1].new)
           returned == ActiveDevicesIn(MockMacPool, map)
       IN  /\ engines' = [engines EXCEPT ![e].map = map, ![e].devices = returned,
                                         ![e].pc = IF Len(returned) > 0 THEN "sync"
                                                   ELSE "sleep"]
           /\ scan_calls' = LastCall("loop", map)
    /\ UNCHANGED <<auxVars, blockVars, now, registryVars, managerRest>>

\* POST /api/scan-now in mock mode: perform_mock_scan up to the test of
\* add_new_devices; when the test fails, the rest of the request as well
MockRequestBegin ==
    /\ handler.pc = "idle"
    /\ current_mode = "mock" /\ mock_discovery # 0
    /\ \E changed \in MockScanStarts(engines[mock_discovery].map), new \in AddNewDraws :
        /\ engines' = [engines EXCEPT ![mock_discovery].map = changed]
        /\ IF AddNewCheck(changed, new)
           THEN /\ handler' = [handler EXCEPT !.pc = "adding",
                                              !.devices = <<NewDevice(changed, new)>>]
                /\ UNCHANGED scan_calls
           ELSE /\ UNCHANGED handler
                /\ scan_calls' = LastCall("request", changed)
    /\ UNCHANGED <<auxVars, blockVars, now, registryVars, handlerRest>>

\* POST /api/scan-now in mock mode: the assignment of add_new_devices, the
\* rest of the scan, the sync and the response
MockRequestInsert ==
    /\ handler.pc = "adding"
    /\ LET map == AddNewInsert(engines[mock_discovery].map, handler.devices[1].new) IN
       /\ engines' = [engines EXCEPT ![mock_discovery].map = map]
       /\ scan_calls' = LastCall("request", map)
    /\ handler' = HandlerIdle
    /\ UNCHANGED <<auxVars, blockVars, now, registryVars, handlerRest>>

\* POST /api/scan-now arrives: the branch api_scan_now takes; in mock mode
\* the scan of the simulated backend, its sync and the response
ScanNowStart ==
    /\ handler.pc = "idle"
    /\ IF current_mode = "real" /\ real_discovery # 0
       THEN /\ handler' = [handler EXCEPT !.pc = "scanning"]
            /\ UNCHANGED engines
       ELSE IF current_mode = "mock" /\ mock_discovery # 0
       THEN /\ \E map \in MockScans(engines[mock_discovery].map) :
                  engines' = [engines EXCEPT ![mock_discovery].map = map]
            /\ UNCHANGED handler
       ELSE UNCHANGED <<handler, engines>>
    /\ UNCHANGED <<auxVars, blockVars, now, registryVars, handlerRest, scan_calls>>

\* api_scan_now: devices = real_discovery.perform_network_scan()
ScanNowScan ==
    /\ handler.pc = "scanning"
    /\ Len(scan_calls) < MaxCalls
    /\ \E found \in DiscoveryScanResults :
        LET devices == perform_network_scan(found) IN
        /\ handler' = [handler EXCEPT !.devices = devices, !.pc = "select"]
        /\ scan_calls' = Append(scan_calls, [count |-> Len(devices), strategy |-> StrategyUsed])
    /\ UNCHANGED <<auxVars, blockVars, now, registryVars, engines, handlerRest>>

\* api_scan_now inside save_to_local_db: the first SELECT
ScanNowSelect ==
    /\ handler.pc = "select"
    /\ handler' = [handler EXCEPT !.exists = FirstSelect(handler.devices), !.pc = "write"]
    /\ UNCHANGED <<auxVars, blockVars, now, registryVars, engines, handlerRest, scan_calls>>

\* api_scan_now inside save_to_local_db: the writes and the commit, or the
\* exception that ends the request with an error response
ScanNowWrite ==
    /\ handler.pc = "write"
    /\ LET db == SaveDevicesSeen(Database(discovered_devices, next_id), handler.devices,
                                 now, handler.exists) IN
       IF db.raised
       THEN /\ handler' = HandlerIdle
            /\ UNCHANGED registryVars
       ELSE /\ Len(scan_history) < MaxScans
            /\ discovered_devices' = db.rows
            /\ next_id' = db.next_id
            /\ scan_history' = Append(scan_history, ScanEvent(handler.devices, now))
            /\ reconciled' = reconciled \cup MacsOf(handler.devices)
            /\ handler' = [handler EXCEPT !.pc = "sync"]
    /\ UNCHANGED <<auxVars, blockVars, now, engines, handlerRest, scan_calls>>

\* api_scan_now in real mode: sync_with_dashboard and the response
ScanNowSync ==
    /\ handler.pc = "sync"
    /\ handler' = HandlerIdle
    /\ UNCHANGED <<auxVars, blockVars, now, registryVars, engines, handlerRest, scan_calls>>

(***************************************************************************)
(* network_firewall.py: the adapters                                       *)
(***************************************************************************)
\* What a call gives its caller: an exception, or a value of one of the
\* shapes (success, message, rule), (success, message), list of rules.
Raises ==
    [raised |-> TRUE, shape |-> "none", ok |-> FALSE, msg |-> "", rule |-> None,
     rules |-> <<>>]
Triple(ok, msg, rule) ==
    [raised |-> FALSE, shape |-> "triple", ok |-> ok, msg |-> msg, rule |-> rule,
     rules |-> <<>>]
Pair(ok, msg) ==
    [raised |-> FALSE, shape |-> "pair", ok |-> ok, msg |-> msg, rule |-> None,
     rules |-> <<>>]
RuleList(rules) ==
    [raised |-> FALSE, shape |-> "list", ok |-> TRUE, msg |-> "", rule |-> None,
     rules |-> rules]

\* (variant: the exception leaves the method)
Try_Propagating(body, except_value) == body

\* try: body / except Exception: return except_value
Try(body, except_value) == IF body.raised THEN except_value ELSE body

\* What an SSH session does during one call: whether connect succeeds, how
\* the first command that does not exit 0 goes ("exit0" when all do), whether
\* reading and decoding a stream raises, and what a listing prints.
SshSessions ==
    [connect : BOOLEAN, exec : {"raises", "exit0", "exit1"}, read_raises : BOOLEAN,
     listed : {<<>>, <<"block drop in label 'r1' DROP string">>}]

\* What one HTTP request to FortiGate gives: whether the status is 200,
\* and whether the body is a JSON object ("dict"), other JSON ("other"), or
\* the request or the decoding of its body raises ("raises")
Requests == [status200 : BOOLEAN, body : {"dict", "other", "raises"}]

\* The requests of one call, and what the policy list holds for the rule
FortiSessions ==
    [first : Requests, second : Requests, lookup : {"found", "absent", "malformed"}]

\* a session in which nothing goes wrong
QuietSsh == [connect |-> TRUE, exec |-> "exit0", read_raises |-> FALSE, listed |-> <<>>]
QuietRequest == [status200 |-> TRUE, body |-> "dict"]
QuietApi == [first |-> QuietRequest, second |-> QuietRequest, lookup |-> "found"]

\* What the world does during one call on an adapter of the given type:
\* the SSH session, the HTTP requests, and whether random.random() < 0.95
Sessions(type) ==
    IF type \in {"pfsense", "openwrt"}
    THEN [ssh : SshSessions, api : {QuietApi}, lucky : {TRUE}]
    ELSE IF type = "fortigate"
    THEN [ssh : {QuietSsh}, api : FortiSessions, lucky : {TRUE}]
    ELSE [ssh : {QuietSsh}, api : {QuietApi}, lucky : BOOLEAN]

\* PfSenseFirewall._connect_ssh / OpenWrtFirewall._connect_ssh: the
\* exception of connect is caught inside
ConnectSsh(ssh) == ssh.connect

\* PfSenseFirewall.block_domain / OpenWrtFirewall.block_domain
SshBlockDomain(ssh, device_ip, domain, error_msg) ==
    Try(IF ~ConnectSsh(ssh) THEN Triple(FALSE, "SSH connection failed", None)
        ELSE IF ssh.exec = "raises" THEN Raises
        ELSE IF ssh.exec = "exit0"
        THEN Triple(TRUE, "Domain " \o domain \o " blocked for " \o device_ip,
                    "block " \o device_ip \o " " \o domain)
        ELSE IF ssh.read_raises THEN Raises
        ELSE Triple(FALSE, "Command failed", None),
        Triple(FALSE, error_msg, None))

\* PfSenseFirewall.unblock_domain
PfSenseUnblockDomain(ssh, device_ip, domain) ==
    Try(IF ~ConnectSsh(ssh) THEN Pair(FALSE, "SSH connection failed")
        ELSE IF ssh.exec = "raises" THEN Raises
        ELSE IF ssh.exec = "exit0"
        THEN Pair(TRUE, "Domain " \o domain \o " unblocked for " \o device_ip)
        ELSE IF ssh.read_raises THEN Raises
        ELSE Pair(FALSE, "Failed to remove rule"),
        Pair(FALSE, "pfSense integration error"))

\* OpenWrtFirewall.unblock_domain: the exit codes are not looked at
OpenWrtUnblockDomain(ssh, device_ip, domain) ==
    Try(IF ~ConnectSsh(ssh) THEN Pair(FALSE, "SSH connection failed")
        ELSE IF ssh.exec = "raises" THEN Raises
        ELSE Pair(TRUE, "Domain " \o domain \o " unblocked for " \o device_ip),
        Pair(FALSE, "OpenWrt integration error"))

\* The router an OpenWrt adapter talks to: the address lines of
\* /etc/dnsmasq.conf, the FORWARD chain (newest first), and how many times
\* each service was restarted
FreshRouter == [dnsmasq_conf |-> <<>>, forward |-> <<>>, dnsmasq_restarts |-> 0,
                firewall_restarts |-> 0]

\* OpenWrtFirewall.block_domain: commands = [...]
OpenWrtBlockCommands(device_ip, domain) ==
    << "echo 'address=/" \o domain \o "/127.0.0.1' >> /etc/dnsmasq.conf",
       "iptables -I FORWARD -s " \o device_ip \o " --string '" \o domain \o "' -j DROP",
       "/etc/init.d/dnsmasq restart",
       "/etc/init.d/firewall restart" >>

\* what the i-th command of block_domain does to the router when it exits 0
OpenWrtEffect(router, i, device_ip, domain) ==
    IF i = 1 THEN [router EXCEPT !.dnsmasq_conf = Append(@, domain)]
    ELSE IF i = 2 THEN [router EXCEPT !.forward = <<(<<device_ip, domain>>)>> \o @]
    ELSE IF i = 3 THEN [router EXCEPT !.dnsmasq_restarts = @ + 1]
    ELSE [router EXCEPT !.firewall_restarts = @ + 1]

\* What the OpenWrt router does during one block_domain: whether connect
\* succeeds, which command is the first not to exit 0 (0 when all do) and
\* how (another exit code, exec_command raising), and whether reading and
\* decoding stderr raises
OpenWrtSessions ==
    [connect : BOOLEAN, fail_at : 0..4, how : {"exit1", "raises"}, read_raises : BOOLEAN]

\* how the i-th command goes in the session
ExitOf(session, i) == IF i = session.fail_at THEN session.how ELSE "exit0"

\* the commands issued so far and the router they leave
Issued(router, executed, result) == [router |-> router, executed |-> executed, result |-> result]

\* for cmd in commands: of OpenWrtFirewall.block_domain, from command i
RECURSIVE OpenWrtBlockLoop(_, _, _, _, _, _)
OpenWrtBlockLoop(router, session, device_ip, domain, i, executed) ==
    LET commands == OpenWrtBlockCommands(device_ip, domain) IN
    IF i > Len(commands)
    THEN Issued(router, executed,
                Triple(TRUE, "Domain " \o domain \o " blocked for " \o device_ip, commands[2]))
    ELSE IF ExitOf(session, i) = "raises" THEN Issued(router, executed, Raises)
    ELSE IF ExitOf(session, i) = "exit1"
    THEN Issued(router, Append(executed, [cmd |-> commands[i], exit |-> 1]),
                IF session.read_raises THEN Raises
                ELSE Triple(FALSE, "Command failed: " \o commands[i] \o " - stderr", None))
    ELSE OpenWrtBlockLoop(OpenWrtEffect(router, i, device_ip, domain), session, device_ip,
                          domain, i + 1, Append(executed, [cmd |-> commands[i], exit |-> 0]))

\* OpenWrtFirewall.block_domain on the given router
OpenWrtBlockDomain(router, session, device_ip, domain) ==
    IF ~session.connect
    THEN Issued(router, <<>>, Triple(FALSE, "SSH connection failed", None))
    ELSE LET r == OpenWrtBlockLoop(router, session, device_ip, domain, 1, <<>>) IN
         Issued(r.router, r.executed,
                Try(r.result, Triple(FALSE, "OpenWrt integration error", None)))

\* PfSenseFirewall.list_rules / OpenWrtFirewall.list_rules
SshListRules(ssh) ==
    Try(IF ~ConnectSsh(ssh) THEN RuleList(<<>>)
        ELSE IF ssh.exec = "raises" \/ ssh.read_raises THEN Raises
        ELSE RuleList(ssh.listed),
        RuleList(<<>>))

\* PfSenseFirewall.test_connection / OpenWrtFirewall.test_connection
SshTestConnection(ssh) ==
    Try(IF ~ConnectSsh(ssh) THEN Pair(FALSE, "SSH connection failed")
        ELSE IF ssh.exec = "raises" \/ ssh.read_raises THEN Raises
        ELSE Pair(TRUE, "Connected"),
        Pair(FALSE, "Connection test failed"))

\* FortiGateFirewall._make_request: (success, response); an exception
\* gives (False, {"error": ...})
MakeRequest(request) ==
    IF request.body = "raises" THEN [success |-> FALSE, body |-> "dict"]
    ELSE [success |-> request.status200, body |-> request.body]

\* response.get(...) on what _make_request returned
ResponseGet(response, value) == IF response.body = "dict" THEN value ELSE Raises

\* FortiGateFirewall.block_domain
FortiGateBlockDomain(api, device_ip, domain, rule_name) ==
    LET address == MakeRequest(api.first)
        policy == MakeRequest(api.second)
    IN
    Try(IF ~address.success
        THEN ResponseGet(address, Triple(FALSE, "Failed to create address object", None))
        ELSE IF policy.success
        THEN Triple(TRUE, "Domain " \o domain \o " blocked for " \o device_ip,
                    "FortiGate policy: " \o rule_name)
        ELSE ResponseGet(policy, Triple(FALSE, "Failed to create policy", None)),
        Triple(FALSE, "FortiGate integration error", None))

\* FortiGateFirewall.unblock_domain
FortiGateUnblockDomain(api, device_ip, domain) ==
    LET listing == MakeRequest(api.first)
        deletion == MakeRequest(api.second)
    IN
    Try(IF ~listing.success THEN Pair(FALSE, "Policy not found")
        ELSE IF listing.body # "dict" \/ api.lookup = "malformed" THEN Raises
        ELSE IF api.lookup = "absent" THEN Pair(FALSE, "Policy not found")
        ELSE IF deletion.success
        THEN Pair(TRUE, "Domain " \o domain \o " unblocked for " \o device_ip)
        ELSE ResponseGet(deletion, Pair(FALSE, "Failed to delete policy")),
        Pair(FALSE, "FortiGate integration error"))

\* FortiGateFirewall.list_rules
FortiGateListRules(api) ==
    LET listing == MakeRequest(api.first) IN
    Try(IF ~listing.success THEN RuleList(<<>>)
        ELSE IF listing.body # "dict" \/ api.lookup = "malformed" THEN Raises
        ELSE IF api.lookup = "found" THEN RuleList(<<"policy">>)
        ELSE RuleList(<<>>),
        RuleList(<<>>))

\* FortiGateFirewall.test_connection
FortiGateTestConnection(api) ==
    LET status == MakeRequest(api.first) IN
    Try(IF status.success THEN ResponseGet(status, Pair(TRUE, "Connected to FortiGate"))
        ELSE ResponseGet(status, Pair(FALSE, "Connection failed")),
        Pair(FALSE, "Connection test failed"))

\* a rule of SimulatedFirewall.rules
SimulatedRule(id, device_ip, domain, rule_name) ==
    [id |-> id, device_ip |-> device_ip, domain |-> domain, rule_name |-> rule_name,
     status |-> "active"]

\* (variant: only the newest rule is compared)
HasRule_NewestOnly(rules, device_ip, domain) ==
    /\ Len(rules) > 0
    /\ rules[Len(rules)].device_ip = device_ip /\ rules[Len(rules)].domain = domain

\* for rule in self.rules: if rule['device_ip'] == device_ip and rule['domain'] == domain
HasRule(rules, device_ip, domain) ==
    \E i \in 1..Len(rules) : rules[i].device_ip = device_ip /\ rules[i].domain = domain

\* SimulatedFirewall.unblock_domain: self.rules.pop(i) of the first match
\* (variant: every rule of the device is removed)
PopRule_EveryRuleOfDevice(rules, device_ip, domain) ==
    LET OtherDevice(rule) == rule.device_ip # device_ip IN SelectSeq(rules, OtherDevice)

\* for i, rule in enumerate(self.rules): ... self.rules.pop(i)
PopRule(rules, device_ip, domain) ==
    LET first == CHOOSE i \in 1..Len(rules) :
                     /\ rules[i].device_ip = device_ip /\ rules[i].domain = domain
                     /\ \A j \in 1..(i - 1) :
                            ~(rules[j].device_ip = device_ip /\ rules[j].domain = domain)
    IN SubSeq(rules, 1, first - 1) \o SubSeq(rules, first + 1, Len(rules))

(***************************************************************************)
(* router_config_manager.py: the profile as the firewall manager sees it   *)
(***************************************************************************)
\* last_tested of a profile that was never tested (None)
NeverTested == -1

\* RouterConfigManager.load_config over no router_config.json
DefaultConfig ==
    [router_ip |-> "", ssh_username |-> "", ssh_password |-> "", mode |-> "simulated",
     router_type |-> "generic", last_tested |-> NeverTested, last_status |-> "unknown",
     last_message |-> "", last_updated |-> NeverTested]

\* the router types detect_router_type reports, the default and one it
\* does not report
RouterTypes ==
    {"generic", "pfSense", "OpenWrt", "DD-WRT", "Linux-based Router", "Generic Router",
     "FortiGate"}

\* get_firewall_config: the type of the firewall integration
get_firewall_config(cfg) ==
    IF cfg.mode = "simulated" THEN [type |-> "simulated"]
    ELSE LET router_type == Lower(cfg.router_type) IN
         [type |-> IF Contains(router_type, "pfsense") THEN "pfsense"
                   ELSE IF Contains(router_type, "openwrt") THEN "openwrt"
                   ELSE IF Contains(router_type, "fortigate") THEN "fortigate"
                   ELSE "simulated"]

(***************************************************************************)
(* router_config_manager.py: capability negotiation                        *)
(***************************************************************************)
\* What the router does during one test_ssh_connection: what connect_ex
\* returns (0, or an errno such as ECONNREFUSED 111) or that the probe
\* raises (host not found), how ssh.connect goes, whether the uname command
\* raises, and the router type detect_router_type finds.
Negotiations ==
    [probe_raises : BOOLEAN, probe : {0, 111},
     ssh : {"ok", "AuthenticationException", "SSHException", "timeout", "Exception"},
     exec_raises : BOOLEAN, detected : {"pfSense", "Generic Router"}]

\* The outcomes that differ in what the method reaches
ReachableNegotiations ==
    { n \in Negotiations :
        /\ n.probe_raises => (n.probe = 0 /\ n.ssh = "ok")
        /\ (n.probe_raises \/ n.probe # 0) => n.ssh = "ok"
        /\ (n.probe_raises \/ n.probe # 0 \/ n.ssh # "ok")
              => (~n.exec_raises /\ n.detected = "Generic Router") }

\* negotiation before any test_ssh_connection
NoNegotiation ==
    [op |-> "none", ok |-> FALSE, msg |-> "", probe |-> 0, probe_raised |-> FALSE,
     ssh_attempted |-> FALSE, router_type |-> "", tested_at |-> NeverTested, nth |-> 0]

\* (variant: the result of the probe is not looked at)
ProbeFailed_Ignored(result) == FALSE

\* if result != 0
ProbeFailed(result) == result # 0

\* test_ssh_connection(router_ip, username, password): the returned
\* (success, message, connection_info), with the steps it took
test_ssh_connection(n) ==
    LET res(ok, msg, ssh_attempted, router_type) ==
            [op |-> "test", ok |-> ok, msg |-> msg, probe |-> n.probe,
             probe_raised |-> n.probe_raises, ssh_attempted |-> ssh_attempted,
             router_type |-> router_type, tested_at |-> now, nth |-> 1 - negotiation.nth]
    IN
    IF n.probe_raises THEN res(FALSE, "Connection failed", FALSE, "")
    ELSE IF ProbeFailed(n.probe) THEN res(FALSE, "Network unreachable", FALSE, "")
    ELSE IF n.ssh = "AuthenticationException" THEN res(FALSE, "Authentication failed", TRUE, "")
    ELSE IF n.ssh = "SSHException" THEN res(FALSE, "SSH connection failed", TRUE, "")
    ELSE IF n.ssh = "timeout" THEN res(FALSE, "Connection timeout", TRUE, "")
    ELSE IF n.ssh = "Exception" THEN res(FALSE, "Connection failed", TRUE, "")
    ELSE IF n.exec_raises THEN res(FALSE, "SSH connection failed", TRUE, "")
    ELSE res(TRUE, "Successfully connected", TRUE, n.detected)

\* test_router_connection(router_ip, username, password)
TestRouterConnection ==
    /\ \E n \in ReachableNegotiations : negotiation' = test_ssh_connection(n)
    /\ UNCHANGED <<config, validation, blockVars, now, registryVars, managerVars,
                   firewallVars, classified>>

\* save_config(config): the profile that is in memory afterwards; the file
\* holds the same when it could be written
save_config(cfg, written) ==
    IF written THEN [cfg EXCEPT !.last_updated = now] ELSE config

\* update_connection_status(success, message, router_info)
update_connection_status(success, message, detected, written) ==
    LET status == [config EXCEPT !.last_tested = now,
                                 !.last_status = IF success THEN "connected" ELSE "failed",
                                 !.last_message = message]
        updated == IF success /\ detected # ""
                   THEN [status EXCEPT !.router_type = detected]
                   ELSE status
    IN
    save_config(updated, written)

\* the messages a caller reports with update_connection_status
StatusMessages == {"Successfully connected", "Network unreachable"}

UpdateConnectionStatus ==
    /\ \E success \in BOOLEAN, message \in StatusMessages,
          detected \in {"", "pfSense"}, written \in BOOLEAN :
          config' = update_connection_status(success, message, detected, written)
    /\ UNCHANGED <<negotiation, validation, blockVars, now, registryVars, managerVars,
                   firewallVars, classified>>

(***************************************************************************)
(* router_config_manager.py: validation of a proposed configuration        *)
(***************************************************************************)
\* not config.get(field): the key is missing or its value is empty
Missing(value) == value = "<None>" \/ value = ""

\* validate_config(config)
validate_config(cfg) ==
    LET answer(ok, msg) == [ok |-> ok, msg |-> msg]
        parts == Split(cfg.router_ip, ".")
    IN
    IF Missing(cfg.router_ip) THEN answer(FALSE, "Missing required field: router_ip")
    ELSE IF Missing(cfg.ssh_username) THEN answer(FALSE, "Missing required field: ssh_username")
    ELSE IF Missing(cfg.mode) THEN answer(FALSE, "Missing required field: mode")
    ELSE IF Len(parts) # 4 THEN answer(FALSE, "Invalid IP address format")
    ELSE IF \E i \in 1..4 : ~IsInt(parts[i]) THEN answer(FALSE, "Invalid IP address format")
    ELSE IF \E i \in 1..4 : ~(0 <= IntOf(parts[i]) /\ IntOf(parts[i]) <= 255)
         THEN answer(FALSE, "Invalid IP address format")
    ELSE IF cfg.mode \notin {"simulated", "real"}
         THEN answer(FALSE, "Mode must be 'simulated' or 'real'")
    ELSE IF cfg.mode = "real" /\ Missing(cfg.ssh_password)
         THEN answer(FALSE, "SSH password is required for real mode")
    ELSE answer(TRUE, "Configuration valid")

\* the addresses a caller proposes
ProposedAddresses ==
    {"<None>", "", "192.168.1.1", "0.0.0.255", "256.1.1.1", "1.2.3", "1.2.3.4.5",
     "a.b.c.d", "1..2.3", "-1.0.0.1", "192.168.1.+1", "10.0.0. 1", "1_0.0.0.1"}

\* the configurations a caller proposes
ProposedConfigs ==
    [router_ip : ProposedAddresses,
     ssh_username : {"<None>", "", "admin"},
     mode : {"<None>", "", "simulated", "real", "auto"},
     ssh_password : {"<None>", "", "secret"}]

\* validation before any validate_config
NoValidation ==
    [op |-> "none", proposed |-> [router_ip |-> "<None>", ssh_username |-> "<None>",
                                  mode |-> "<None>", ssh_password |-> "<None>"],
     ok |-> FALSE, msg |-> "", nth |-> 0]

ValidateConfig ==
    /\ \E cfg \in ProposedConfigs :
          validation' = [op |-> "validate", proposed |-> cfg,
                         ok |-> validate_config(cfg).ok, msg |-> validate_config(cfg).msg,
                         nth |-> 1 - validation.nth]
    /\ UNCHANGED <<config, negotiation, blockVars, now, registryVars, managerVars,
                   firewallVars, classified>>

(***************************************************************************)
(* network_firewall.py: FirewallManager                                    *)
(***************************************************************************)
\* (variant: a failing constructor leaves the configured type in place)
InitializeFirewall_NoFallback(type, constructor_raises) == type

\* FirewallManager._initialize_firewall: the type of the adapter it leaves
\* in self.firewall
InitializeFirewall(type, constructor_raises) ==
    IF type \in {"pfsense", "openwrt", "fortigate"}
    THEN (IF constructor_raises THEN "simulated" ELSE type)
    ELSE "simulated"

\* firewall_result before any call
NoFirewallCall ==
    [op |-> "none", device_ip |-> "", domain |-> "", result |-> Pair(TRUE, ""),
     constructor_raised |-> FALSE, nth |-> 0]

FirewallCall(op, device_ip, domain, result) ==
    [op |-> op, device_ip |-> device_ip, domain |-> domain, result |-> result,
     constructor_raised |-> firewall_result.constructor_raised,
     nth |-> 1 - firewall_result.nth]

\* FirewallManager(router_config.get_firewall_config())
ConstructFirewallManager ==
    /\ firewall_type = ""
    /\ \E constructor_raises \in BOOLEAN :
          /\ firewall_type' = InitializeFirewall(get_firewall_config(config).type,
                                                 constructor_raises)
          /\ firewall_result' = [NoFirewallCall EXCEPT
                                    !.constructor_raised = constructor_raises]
    /\ firewall_rules' = <<>>
    /\ rule_counter' = 1
    /\ UNCHANGED <<blockVars, now, registryVars, managerVars, profileVars, classified>>

DeviceIps == {"10.0.0.5", "10.0.0.6"}
FirewallDomains == {"example.com", "test.org"}

\* FirewallManager.block_domain(device_ip, domain, rule_name)
FirewallBlockDomain ==
    /\ firewall_type # ""
    /\ \E device_ip \in DeviceIps, domain \in FirewallDomains,
          session \in Sessions(firewall_type) :
        LET rule_name == "block-" \o domain IN
        IF firewall_type = "simulated"
        THEN IF HasRule(firewall_rules, device_ip, domain)
             THEN /\ firewall_result' =
                        FirewallCall("block", device_ip, domain,
                            Triple(FALSE, "Domain " \o domain \o " already blocked", None))
                  /\ UNCHANGED <<firewall_rules, rule_counter>>
             ELSE IF session.lucky
             THEN /\ rule_counter <= MaxRuleId
                  /\ firewall_rules' = Append(firewall_rules,
                         SimulatedRule(rule_counter, device_ip, domain, rule_name))
                  /\ rule_counter' = rule_counter + 1
                  /\ firewall_result' =
                        FirewallCall("block", device_ip, domain,
                            Triple(TRUE, "Domain " \o domain \o " successfully blocked",
                                   "BLOCK " \o device_ip \o " -> " \o domain))
             ELSE /\ firewall_result' =
                        FirewallCall("block", device_ip, domain,
                            Triple(FALSE, "Simulated firewall error: Network timeout", None))
                  /\ UNCHANGED <<firewall_rules, rule_counter>>
        ELSE /\ firewall_result' =
                   FirewallCall("block", device_ip, domain,
                       IF firewall_type = "pfsense"
                       THEN SshBlockDomain(session.ssh, device_ip, domain,
                                           "pfSense integration error")
                       ELSE IF firewall_type = "openwrt"
                       THEN SshBlockDomain(session.ssh, device_ip, domain,
                                           "OpenWrt integration error")
                       ELSE FortiGateBlockDomain(session.api, device_ip, domain, rule_name))
             /\ UNCHANGED <<firewall_rules, rule_counter>>
    /\ UNCHANGED <<firewall_type, blockVars, now, registryVars, managerVars, profileVars,
                   classified>>

\* FirewallManager.unblock_domain(device_ip, domain, rule_name)
FirewallUnblockDomain ==
    /\ firewall_type # ""
    /\ \E device_ip \in DeviceIps, domain \in FirewallDomains,
          session \in Sessions(firewall_type) :
        IF firewall_type = "simulated"
        THEN IF HasRule(firewall_rules, device_ip, domain)
             THEN /\ firewall_rules' = PopRule(firewall_rules, device_ip, domain)
                  /\ firewall_result' =
                        FirewallCall("unblock", device_ip, domain,
                            Pair(TRUE, "Domain " \o domain \o " successfully unblocked"))
             ELSE /\ firewall_result' =
                        FirewallCall("unblock", device_ip, domain,
                            Pair(FALSE, "No blocking rule found for " \o domain))
                  /\ UNCHANGED firewall_rules
        ELSE /\ firewall_result' =
                   FirewallCall("unblock", device_ip, domain,
                       IF firewall_type = "pfsense"
                       THEN PfSenseUnblockDomain(session.ssh, device_ip, domain)
                       ELSE IF firewall_type = "openwrt"
                       THEN OpenWrtUnblockDomain(session.ssh, device_ip, domain)
                       ELSE FortiGateUnblockDomain(session.api, device_ip, domain))
             /\ UNCHANGED firewall_rules
    /\ UNCHANGED <<firewall_type, rule_counter, blockVars, now, registryVars, managerVars,
                   profileVars, classified>>

\* SimulatedFirewall.list_rules
SimulatedListRules(rules) ==
    RuleList([i \in 1..Len(rules) |-> "BLOCK " \o rules[i].device_ip \o " -> "
                                          \o rules[i].domain])

\* FirewallManager.list_rules()
FirewallListRules ==
    /\ firewall_type # ""
    /\ \E session \in Sessions(firewall_type) :
        firewall_result' =
            FirewallCall("list", "", "",
                IF firewall_type = "simulated" THEN SimulatedListRules(firewall_rules)
                ELSE IF firewall_type = "fortigate" THEN FortiGateListRules(session.api)
                ELSE SshListRules(session.ssh))
    /\ UNCHANGED <<firewall_type, firewall_rules, rule_counter, blockVars, now,
                   registryVars, managerVars, profileVars, classified>>

\* FirewallManager.test_connection()
FirewallTestConnection ==
    /\ firewall_type # ""
    /\ \E session \in Sessions(firewall_type) :
        firewall_result' =
            FirewallCall("test", "", "",
                IF firewall_type = "simulated"
                THEN Pair(TRUE, "Connected to simulated firewall (Demo Mode)")
                ELSE IF firewall_type = "fortigate"
                THEN FortiGateTestConnection(session.api)
                ELSE SshTestConnection(session.ssh))
    /\ UNCHANGED <<firewall_type, firewall_rules, rule_counter, blockVars, now,
                   registryVars, managerVars, profileVars, classified>>

\* OpenWrtFirewall(host, username, password).block_domain(device_ip, domain,
\* rule_name) called on the adapter; firewall_result also holds the
\* commands the router was sent and the router they leave
OpenWrtBlock ==
    /\ firewall_type = "openwrt"
    /\ Len(firewall_result.router.dnsmasq_conf) < MaxRules
    /\ \E device_ip \in DeviceIps, domain \in FirewallDomains, session \in OpenWrtSessions :
        LET r == OpenWrtBlockDomain(firewall_result.router, session, device_ip, domain) IN
        firewall_result' =
            [op |-> "openwrt_block", device_ip |-> device_ip, domain |-> domain,
             result |-> r.result, constructor_raised |-> FALSE,
             nth |-> 1 - firewall_result.nth,
             connected |-> session.connect, executed |-> r.executed, router |-> r.router]
    /\ UNCHANGED <<firewall_type, firewall_rules, rule_counter, blockVars, now,
                   registryVars, managerVars, profileVars, classified>>

(***************************************************************************)
(* Initial states                                                          *)
(***************************************************************************)
\* GlobalBlockingManager() over no global_blocked_sites.json, no router
\* profile and a router without block rules
InitBlocking ==
    /\ blocked_domains = <<>>
    /\ config_file = <<>>
    /\ router_config = NoProfile
    /\ router_rules = <<>>
    /\ fleet = Fleet
    /\ block_result = NoResult

\* init_local_db over no network_devices.db
InitRegistry ==
    /\ discovered_devices = <<>>
    /\ scan_history = <<>>
    /\ next_id = 1
    /\ reconciled = {}


\* DiscoveryManager()
InitManager ==
    /\ engines = <<>>
    /\ real_discovery = 0
    /\ mock_discovery = 0
    /\ current_mode = "mock"
    /\ handler = HandlerIdle
    /\ scan_calls = <<>>
    /\ NMAP_AVAILABLE = FALSE
    /\ SCAPY_AVAILABLE = TRUE




\* no FirewallManager constructed yet
InitFirewall ==
    /\ firewall_type = ""
    /\ firewall_rules = <<>>
    /\ rule_counter = 1
    /\ firewall_result = NoFirewallCall

\* RouterConfigManager() over no router_config.json
InitRouterConfigManager ==
    /\ config = DefaultConfig
    /\ negotiation = NoNegotiation
    /\ validation = NoValidation

\* nothing classified yet
InitClassifier == classified = NothingClassified

InitAux == InitFirewall /\ InitRouterConfigManager /\ InitClassifier

Init == now = 0 /\ InitBlocking /\ InitRegistry /\ InitManager /\ InitAux

(***************************************************************************)
(* The block-list of the global blocking manager, no router profile        *)
(***************************************************************************)
AddAny == AddBlockedDomain(DomainInputs, Reasons)
RemoveAny == RemoveBlockedDomain(DomainInputs)

NextBlocking == AddAny \/ RemoveAny

SpecBlocking == Init /\ [][NextBlocking]_vars

(***************************************************************************)
(* The entries of the block-list as time passes, no router profile         *)
(***************************************************************************)
AddEntry == AddBlockedDomain(RouterDomainInputs, Reasons)
RemoveEntry == RemoveBlockedDomain(RouterDomainInputs)

NextBlockList == AddEntry \/ RemoveEntry \/ Tick

SpecBlockList == Init /\ [][NextBlockList]_vars

(***************************************************************************)
(* The global blocking manager driving a real router over SSH              *)
(***************************************************************************)
InitRouter ==
    /\ now = 0
    /\ blocked_domains = <<>>
    /\ config_file = <<>>
    /\ router_config = RealProfile
    /\ router_rules = <<>>
    /\ fleet = Fleet
    /\ block_result = NoResult
    /\ InitRegistry
    /\ InitManager
    /\ InitAux

AddOnRouter == AddBlockedDomain(RouterDomainInputs, {"Global block"})
RemoveOnRouter == RemoveBlockedDomain(RouterDomainInputs)

NextRouter == AddOnRouter \/ RemoveOnRouter

SpecRouter == InitRouter /\ [][NextRouter]_vars

(***************************************************************************)
(* The global blocking manager over every router profile                   *)
(***************************************************************************)
InitProfile ==
    /\ now = 0
    /\ blocked_domains = <<>>
    /\ config_file = <<>>
    /\ router_config \in Profiles
    /\ router_rules = <<>>
    /\ fleet = Fleet
    /\ block_result = NoResult
    /\ InitRegistry
    /\ InitManager
    /\ InitAux

AddUnderProfile == AddBlockedDomain({"example.com", "test.org"}, {"Global block"})
RemoveUnderProfile == RemoveBlockedDomain({"example.com", "test.org"})

NextProfile == AddUnderProfile \/ RemoveUnderProfile

SpecProfile == InitProfile /\ [][NextProfile]_vars

(***************************************************************************)
(* Fleet-wide application and removal called on a real router              *)
(***************************************************************************)
NextFleet == ApplyDomainBlock \/ RemoveDomainBlock

SpecFleet == InitRouter /\ [][NextFleet]_vars

(***************************************************************************)
(* Re-applying the block-list to a real router                             *)
(***************************************************************************)
AddBeforeReapply == AddBlockedDomain({"example.com", "test.org"}, {"Global block"})

NextReapply == AddBeforeReapply \/ ReapplyAllRules

SpecReapply == InitRouter /\ [][NextReapply]_vars

(***************************************************************************)
(* One domain on the real router: added, re-applied and removed while the   *)
(* devices change address                                                   *)
(***************************************************************************)
\* the addresses a device may be reported under
DeviceAddresses == {"10.0.0.5", "10.0.0.6", "10.0.0.7"}

\* get_discovered_devices reports a device under another address than at the
\* call before
DeviceChangesIp ==
    \E i \in 1..Len(fleet), ip \in DeviceAddresses :
        /\ fleet[i] # ""
        /\ \A j \in 1..Len(fleet) : fleet[j] # ip
        /\ fleet' = [fleet EXCEPT ![i] = ip]
        /\ UNCHANGED <<blocked_domains, config_file, router_rules, block_result, auxVars,
                       router_config, now, registryVars, managerVars>>

AddForUnblock == AddBlockedDomain({"example.com"}, {"Global block"})
RemoveForUnblock == RemoveBlockedDomain({"example.com"})

NextUnblock == AddForUnblock \/ ReapplyAllRules \/ RemoveForUnblock \/ DeviceChangesIp

SpecUnblock == InitRouter /\ [][NextUnblock]_vars

(***************************************************************************)
(* The device registry under sequential reconcile calls                    *)
(***************************************************************************)
NextRegistry == Reconcile \/ Tick

SpecRegistry == Init /\ [][NextRegistry]_vars

(***************************************************************************)
(* The dashboard process: mode switches, loops and scan-now requests       *)
(***************************************************************************)
Loop ==
    \E e \in 1..Len(engines) :
        \/ LoopCheck(e)
        \/ LoopScan(e)
        \/ LoopSelect(e)
        \/ LoopWrite(e)
        \/ LoopSync(e)
        \/ LoopSleep(e)
        \/ MockLoopScan(e)
        \/ MockLoopRaise(e)

ScanNow == ScanNowStart \/ ScanNowScan \/ ScanNowSelect \/ ScanNowWrite \/ ScanNowSync

NextDiscovery == SwitchToReal \/ SwitchToMock \/ Loop \/ ScanNow

SpecDiscovery == Init /\ [][NextDiscovery]_vars

(***************************************************************************)
(* One background loop from its start to the shutdown of the dashboard,    *)
(* with the saves of the request threads as whole steps                    *)
(***************************************************************************)
\* the dashboard after main's switch_to_mock_discovery, or after the
\* switch_to_real_discovery of a request that follows it at once
InitLoop ==
    /\ now = 0
    /\ InitBlocking
    /\ InitRegistry
    /\ \/ /\ engines = <<NewEngine("mock")>>
          /\ real_discovery = 0
          /\ mock_discovery = 1
          /\ current_mode = "mock"
       \/ /\ engines = Append(Stopped(<<NewEngine("mock")>>, 1), NewEngine("real"))
          /\ real_discovery = 2
          /\ mock_discovery = 1
          /\ current_mode = "real"
    /\ handler = HandlerIdle
    /\ scan_calls = <<>>
    /\ NMAP_AVAILABLE = FALSE
    /\ SCAPY_AVAILABLE = TRUE
    /\ InitAux

\* main of the dashboard on KeyboardInterrupt: stop_scanning, stop_discovery
StopDiscovery ==
    /\ \E e \in {real_discovery, mock_discovery} \ {0} :
          /\ engines[e].running
          /\ engines' = Stopped(engines, e)
    /\ UNCHANGED <<auxVars, blockVars, now, registryVars, managerRest, scan_calls>>

\* a save of the /api/scan-now request thread, in real mode
ConcurrentSave == current_mode = "real" /\ Reconcile

NextLoop == Loop \/ StopDiscovery \/ ConcurrentSave

(***************************************************************************)
(* The simulated engine scanned by its loop and by /api/scan-now requests  *)
(***************************************************************************)
\* the dashboard after main's switch_to_mock_discovery
InitMock ==
    /\ now = 0
    /\ InitBlocking
    /\ InitRegistry
    /\ engines = <<NewEngine("mock")>>
    /\ real_discovery = 0
    /\ mock_discovery = 1
    /\ current_mode = "mock"
    /\ handler = HandlerIdle
    /\ scan_calls = <<>>
    /\ NMAP_AVAILABLE = FALSE
    /\ SCAPY_AVAILABLE = TRUE
    /\ InitAux

NextMock ==
    \/ \E e \in 1..Len(engines) :
          \/ LoopCheck(e)
          \/ MockLoopBegin(e)
          \/ MockLoopInsert(e)
          \/ LoopSync(e)
          \/ LoopSleep(e)
    \/ MockRequestBegin
    \/ MockRequestInsert

SpecMock == InitMock /\ [][NextMock]_vars

\* main of mock_network_discovery.py: the loop alone
NextMockLoop ==
    \E e \in 1..Len(engines) :
        \/ LoopCheck(e)
        \/ MockLoopBegin(e)
        \/ MockLoopInsert(e)
        \/ LoopSync(e)
        \/ LoopSleep(e)

SpecMockLoop == InitMock /\ [][NextMockLoop]_vars

SpecLoop == InitLoop /\ [][NextLoop]_vars

(***************************************************************************)
(* Scans of the real engine on hosts with and without nmap and scapy       *)
(***************************************************************************)
InitScan ==
    /\ now = 0
    /\ InitBlocking
    /\ InitRegistry
    /\ engines = <<>>
    /\ real_discovery = 0
    /\ mock_discovery = 0
    /\ current_mode = "mock"
    /\ handler = HandlerIdle
    /\ scan_calls = <<>>
    /\ NMAP_AVAILABLE \in BOOLEAN
    /\ SCAPY_AVAILABLE \in BOOLEAN
    /\ InitAux

NextScan == PerformNetworkScan

SpecScan == InitScan /\ [][NextScan]_vars

(***************************************************************************)
(* The firewall manager over every router profile                          *)
(***************************************************************************)
\* the profiles a RouterConfigManager may hold when the manager is built
FirewallProfiles ==
    {[DefaultConfig EXCEPT !.mode = mode, !.router_type = router_type,
                           !.router_ip = "192.168.1.1", !.ssh_username = "admin",
                           !.ssh_password = "secret"] :
        mode \in {"simulated", "real"}, router_type \in RouterTypes}

InitFirewallManager ==
    /\ now = 0
    /\ InitBlocking
    /\ InitRegistry
    /\ InitManager
    /\ InitFirewall
    /\ config \in FirewallProfiles
    /\ negotiation = NoNegotiation
    /\ validation = NoValidation
    /\ InitClassifier

\* an OpenWrt adapter constructed, its router untouched
InitOpenWrt ==
    /\ now = 0
    /\ InitBlocking
    /\ InitRegistry
    /\ InitManager
    /\ InitRouterConfigManager
    /\ InitClassifier
    /\ firewall_type = "openwrt"
    /\ firewall_rules = <<>>
    /\ rule_counter = 1
    /\ firewall_result =
          [op |-> "none", device_ip |-> "", domain |-> "", result |-> Pair(TRUE, ""),
           constructor_raised |-> FALSE, nth |-> 0,
           connected |-> FALSE, executed |-> <<>>, router |-> FreshRouter]

NextOpenWrt == OpenWrtBlock

SpecOpenWrt == InitOpenWrt /\ [][NextOpenWrt]_vars

NextFirewall ==
    \/ ConstructFirewallManager
    \/ FirewallBlockDomain
    \/ FirewallUnblockDomain
    \/ FirewallListRules
    \/ FirewallTestConnection

SpecFirewall == InitFirewallManager /\ [][NextFirewall]_vars

(***************************************************************************)
(* The router profile manager: negotiations and status updates over time   *)
(***************************************************************************)
NextNegotiation ==
    \/ TestRouterConnection
    \/ UpdateConnectionStatus
    \/ Tick

SpecNegotiation == Init /\ [][NextNegotiation]_vars

(***************************************************************************)
(* The router profile manager validating proposed configurations           *)
(***************************************************************************)
NextValidation == ValidateConfig

SpecValidation == Init /\ [][NextValidation]_vars

(***************************************************************************)
(* The classifier over the observations of a scan                          *)
(***************************************************************************)
NextClassifier == ClassifyDevice

SpecClassifier == Init /\ [][NextClassifier]_vars

(***************************************************************************)
(* Properties of the global blocking manager                               *)
(***************************************************************************)
\* the step is a call of the manager
IsBlockCall == block_result'.nth # block_result.nth

HasPrefix(s, prefix) == Len(s) >= Len(prefix) /\ SubSeq(s, 1, Len(prefix)) = prefix
DropPrefix(s, prefix) == IF HasPrefix(s, prefix) THEN SubSeq(s, Len(prefix) + 1, Len(s)) ELSE s

\* The site a domain string names, whatever its case, its scheme and a
\* leading "www.": what a case-, scheme- and www.-insensitive match compares.
SiteKey(d) ==
    DropPrefix(DropPrefix(DropPrefix(Lower(Strip(d)), "http://"), "https://"), "www.")

\* SiteKey of every input and of every key the manager stores, computed once
SiteKeyOf ==
    [d \in AllDomainInputs \cup {CleanedForAdd[x] : x \in AllDomainInputs} |-> SiteKey(d)]

PresentInsensitive(list, d) ==
    \E i \in 1..Len(list) : SiteKeyOf[list[i].domain] = SiteKeyOf[d]

\* the input without surrounding blanks, in lower case, computed once
TrimmedLower == [d \in AllDomainInputs |-> Lower(Strip(d))]

\* C8: add_blocked_domain of a domain that is already present under a case-,
\* scheme- and www.-insensitive match returns failure "already blocked" and
\* leaves the block-list, in memory and on disk, unchanged in length.
C8_DuplicateAddRejected ==
    [][ ( /\ IsBlockCall
          /\ block_result'.op = "add"
          /\ PresentInsensitive(blocked_domains, block_result'.domain) )
        => ( /\ ~block_result'.ok
             /\ block_result'.msg = "already blocked"
             /\ Len(blocked_domains') = Len(blocked_domains)
             /\ Len(config_file') = Len(config_file) ) ]_vars

\* an add was rejected for an input that differs from the stored key in case,
\* scheme or "www."
C8_Witness ==
    /\ block_result.op = "add"
    /\ block_result.msg = "already blocked"
    /\ block_result.domain = "https://www.example.com"
    /\ \E i \in 1..Len(blocked_domains) : blocked_domains[i].domain = "example.com"

\* C9: add("HTTP://WWW.Example.com/") followed by add("example.com"): the
\* first is stored under the key "example.com", the second call fails with
\* "already blocked" and the list holds one entry.
C9_ScenarioSecondAddRejected ==
    [][ ( /\ block_result.op = "add"
          /\ block_result.domain = "HTTP://WWW.Example.com/"
          /\ block_result.ok
          /\ Len(blocked_domains) = 1
          /\ IsBlockCall
          /\ block_result'.op = "add"
          /\ block_result'.domain = "example.com" )
        => ( /\ blocked_domains[1].domain = "example.com"
             /\ ~block_result'.ok
             /\ block_result'.msg = "already blocked"
             /\ Len(blocked_domains') = 1 ) ]_vars

\* C10: remove_blocked_domain of a domain that is not in the block-list
\* returns failure "not found", leaves the block-list in memory and on disk
\* unchanged and runs no fleet-wide unblock: the router's rules stay.
C10_RemoveAbsentNotFound ==
    [][ ( /\ IsBlockCall
          /\ block_result'.op = "remove"
          /\ ~IsBlocked(blocked_domains, TrimmedLower[block_result'.domain]) )
        => ( /\ ~block_result'.ok
             /\ block_result'.msg = "not found"
             /\ blocked_domains' = blocked_domains
             /\ config_file' = config_file
             /\ router_rules' = router_rules
             /\ block_result'.invoked = "none" ) ]_vars

\* a remove found nothing while the list held entries and the router rules
C10_Witness ==
    /\ block_result.op = "remove"
    /\ block_result.msg = "not found"
    /\ Len(blocked_domains) > 0
    /\ Len(router_rules) > 0

\* the entry add_blocked_domain makes for the domain the call was given
IsNewEntry(entry, domain) ==
    /\ entry.domain = CleanedForAdd[domain]
    /\ entry.status = "active"
    /\ entry.created_at = now

\* C23: add_blocked_domain appends the entry with status active; the fleet
\* application is started only once the list with the entry is persisted;
\* and when the fleet application fails the entry stays in the list and in
\* the file and the call still returns success.
C23_AddSurvivesFailedApplication ==
    [][ ( /\ IsBlockCall
          /\ block_result'.op = "add"
          /\ block_result'.msg # "already blocked" )
        => ( /\ Len(blocked_domains') = Len(blocked_domains) + 1
             /\ IsNewEntry(blocked_domains'[Len(blocked_domains')], block_result'.domain)
             /\ block_result'.invoked = "apply" => config_file' = blocked_domains'
             /\ config_file' # blocked_domains' =>
                    (router_rules' = router_rules /\ block_result'.invoked = "none")
             /\ block_result'.failed # <<>> =>
                    /\ block_result'.ok
                    /\ block_result'.invoked = "apply"
                    /\ config_file' = blocked_domains' ) ]_vars

\* an add whose fleet application failed on the router: success returned,
\* the entry listed and persisted
C23_Witness ==
    /\ block_result.op = "add"
    /\ block_result.ok
    /\ block_result.msg = "rules application pending"
    /\ Len(blocked_domains) > 0
    /\ blocked_domains[Len(blocked_domains)].domain = CleanedForAdd[block_result.domain]
    /\ config_file = blocked_domains

\* the devices of a list that expose a current IP, in order
WithCurrentIp(devices) == LET HasIp(ip) == ip # "" IN SelectSeq(devices, HasIp)

\* the rules one domain's accepted block commands append
RulesFor(ips, domain) == [i \in 1..Len(ips) |-> <<ips[i], domain>>]

\* whether the SSH session of the call broke: the connection failed or a
\* command raised
SessionBroke(result) == ~result.ok

C25_RemoveCountsRemovals ==
    [][ ( /\ IsBlockCall
          /\ block_result'.op = "remove_domain_block"
          /\ block_result'.ok )
        => ( /\ block_result'.count = Len(block_result'.accepted)
             /\ block_result'.count = Len(router_rules) - Len(router_rules') ) ]_vars

\* no two entries of the list carry the same domain key
DuplicateFree(list) ==
    \A i \in 1..Len(list), j \in 1..Len(list) : list[i].domain = list[j].domain => i = j

\* C11: after any sequence of add_blocked_domain and remove_blocked_domain
\* calls from the empty list no two entries, in memory or on disk, have the
\* same domain key, and an add whose cleaned domain is already a key is
\* rejected and leaves every entry, its reason, created_by and created_at
\* included, as it was.
C11_DomainKeysUnique ==
    /\ [](DuplicateFree(blocked_domains) /\ DuplicateFree(config_file))
    /\ [][ ( /\ IsBlockCall
             /\ block_result'.op = "add"
             /\ \E i \in 1..Len(blocked_domains) :
                    blocked_domains[i].domain = CleanedForAdd[block_result'.domain] )
           => ( /\ ~block_result'.ok
                /\ blocked_domains' = blocked_domains
                /\ config_file' = config_file ) ]_vars

\* a duplicate add was rejected, later than the entries were created, while
\* the list held two entries that differ in reason and in created_at
C11_Witness ==
    /\ block_result.op = "add"
    /\ block_result.msg = "already blocked"
    /\ Len(blocked_domains) = 2
    /\ blocked_domains[1].reason # blocked_domains[2].reason
    /\ blocked_domains[1].created_at < blocked_domains[2].created_at
    /\ blocked_domains[2].created_at < now

\* the domain keys of the active entries, in list order
ActiveDomains(list) ==
    LET Active(d) == d.status = "active" IN
    [i \in 1..Len(SelectSeq(list, Active)) |-> SelectSeq(list, Active)[i].domain]

\* the members of a sequence
Range(seq) == {seq[i] : i \in 1..Len(seq)}

\* C12: reapply_all_rules hands every active domain to the fleet-wide apply,
\* whichever of them fail: the domains that did not fail are applied (their
\* applied rules are on the router and in the count), the call returns
\* failure exactly when some domain failed, and its message names every
\* failed domain.
C12_ReapplyContinuesAndNamesFailure ==
    [][ ( IsBlockCall /\ block_result'.op = "reapply" )
        => ( /\ block_result'.attempted = ActiveDomains(blocked_domains)
             /\ Range(block_result'.failed) \subseteq Range(block_result'.attempted)
             /\ block_result'.ok = (block_result'.failed = <<>>)
             /\ \A i \in 1..Len(block_result'.failed) :
                    Contains(block_result'.msg, block_result'.failed[i])
             /\ Len(router_rules') >= Len(router_rules) + block_result'.count ) ]_vars

\* a reapply over two active domains in which the first failed and the second
\* was applied to the devices
C12_Witness ==
    /\ block_result.op = "reapply"
    /\ Len(blocked_domains) = 2
    /\ block_result.failed = <<blocked_domains[1].domain>>
    /\ block_result.attempted = <<blocked_domains[1].domain, blocked_domains[2].domain>>
    /\ ~block_result.ok
    /\ block_result.count = 2
    /\ \E i \in 1..Len(router_rules) : router_rules[i][2] = blocked_domains[2].domain

\* C13: when the router profile is absent or its mode is simulated, a
\* fleet-wide apply or remove invokes nothing on the router and reports
\* success: the router's rules stay and the call answers with the success
\* message and the size of the device list.
C13_SimulatedSkipsRouter ==
    [][ ( /\ IsBlockCall
          /\ block_result'.invoked # "none"
          /\ (~router_config.exists \/ router_config.mode = "simulated") )
        => ( /\ router_rules' = router_rules
             /\ block_result'.ok
             /\ block_result'.msg \in {"blocked successfully", "unblocked successfully"}
             /\ block_result'.count \in {0, Len(fleet)} ) ]_vars

\* every active domain has its block rule on the router for every device
\* that exposes an address
FullyApplied(rules, list, devices) ==
    \A i \in 1..Len(list), k \in 1..Len(devices) :
        (list[i].status = "active" /\ devices[k] # "")
            => <<devices[k], list[i].domain>> \in Range(rules)

\* C14: re-applying the block-list to a device population that already has
\* every rule of it leaves the router's rules as they were.
C14_ReapplyIdempotent ==
    [][ ( /\ IsBlockCall
          /\ block_result'.op = "reapply"
          /\ FullyApplied(router_rules, blocked_domains, fleet) )
        => router_rules' = router_rules ]_vars

(***************************************************************************)
(* Properties of the firewall manager and its adapters                     *)
(***************************************************************************)
\* the shape of value each operation promises
PromisedShape ==
    [block |-> "triple", unblock |-> "pair", test |-> "pair", list |-> "list"]

\* C15: whatever the remote session does, every block_domain, unblock_domain
\* and test_connection call on the manager's adapter returns a (success,
\* message[, rule]) value and list_rules returns a list; none raises.
C15_AdapterCallsTotal ==
    firewall_result.op # "none" =>
        /\ ~firewall_result.result.raised
        /\ firewall_result.result.shape = PromisedShape[firewall_result.op]

\* a FortiGate call whose response was not a JSON object, and an SSH call
\* whose command raised, each answered with a failure value
C15_Witness ==
    /\ firewall_result.op \in {"block", "unblock", "test"}
    /\ ~firewall_result.result.ok
    /\ firewall_result.result.msg \in
           {"FortiGate integration error", "pfSense integration error",
            "OpenWrt integration error", "Connection test failed"}

\* the router types that name none of pfsense, openwrt, fortigate
UnknownRouterTypes == {"generic", "DD-WRT", "Linux-based Router", "Generic Router"}

\* C16: the manager has one adapter from construction on and never another;
\* a profile in simulated mode or of a router type that maps to no adapter
\* gives the simulated adapter, and so does a constructor that raises.
C16_AdapterFixedWithSimulatedFallback ==
    /\ []( firewall_type # "" =>
             /\ firewall_type \in {"pfsense", "openwrt", "fortigate", "simulated"}
             /\ (config.mode = "simulated" \/ config.router_type \in UnknownRouterTypes
                    \/ firewall_result.constructor_raised)
                   => firewall_type = "simulated" )
    /\ [][ firewall_type # "" => firewall_type' = firewall_type ]_vars

\* a manager built over a real pfSense profile whose adapter constructor
\* raised serves calls with the simulated adapter
C16_Witness ==
    /\ firewall_type = "simulated"
    /\ firewall_result.constructor_raised
    /\ config.mode = "real"
    /\ config.router_type = "pfSense"
    /\ firewall_result.op = "block"
    /\ firewall_result.result.ok

(***************************************************************************)
(* Properties of the router profile manager                                *)
(***************************************************************************)
\* a step in which test_ssh_connection returned
IsNegotiation == negotiation'.nth # negotiation.nth

\* C17: when the TCP connect probe to the SSH port fails (connect_ex returns
\* a non-zero code), test_ssh_connection returns failure with the network
\* unreachable message and never attempts the authenticated SSH connection.
C17_UnreachableSkipsSsh ==
    (negotiation.op = "test" /\ ~negotiation.probe_raised /\ negotiation.probe # 0) =>
        /\ ~negotiation.ok
        /\ negotiation.msg = "Network unreachable"
        /\ ~negotiation.ssh_attempted

\* a negotiation whose probe was refused
C17_Witness ==
    /\ negotiation.op = "test"
    /\ ~negotiation.probe_raised
    /\ negotiation.probe = 111
    /\ negotiation.msg = "Network unreachable"

\* C18: every negotiation, successful or failed, leaves the profile with
\* last_tested at the time of the negotiation and last_status telling its
\* outcome.
C18_NegotiationUpdatesStatus ==
    [][ IsNegotiation =>
          /\ config'.last_tested = now
          /\ config'.last_status = IF negotiation'.ok THEN "connected" ELSE "failed" ]_vars

\* a decimal octet: one or more decimal digits writing a number in [0,255]
IsOctet(s) ==
    /\ Len(s) > 0
    /\ \A i \in 1..Len(s) : IsDigit(CharAt(s, i))
    /\ DigitsValue(s) <= 255

\* four dot-separated octets
IsDottedQuad(s) ==
    /\ Len(Split(s, ".")) = 4
    /\ \A i \in 1..4 : IsOctet(Split(s, ".")[i])

\* the configurations the contract accepts
Acceptable(cfg) ==
    /\ ~Missing(cfg.router_ip)
    /\ ~Missing(cfg.ssh_username)
    /\ ~Missing(cfg.mode)
    /\ cfg.mode \in {"simulated", "real"}
    /\ cfg.mode = "real" => ~Missing(cfg.ssh_password)
    /\ IsDottedQuad(cfg.router_ip)

\* C19: validate_config accepts a proposed configuration exactly when
\* router_ip, ssh_username and mode are present and non-empty, mode is
\* simulated or real, real mode comes with a non-empty secret, and router_ip
\* is four dot-separated octets each in [0,255].
C19_ValidateAcceptsExactly ==
    validation.op = "validate" => (validation.ok <=> Acceptable(validation.proposed))

(***************************************************************************)
(* Properties of the device registry                                       *)
(***************************************************************************)
RowsOf(mac) == {i \in 1..Len(discovered_devices) : discovered_devices[i].mac_address = mac}

\* C1: whatever observations of a MAC the reconcile calls bring, the first_seen
\* of its stored record never changes once the record is inserted and its
\* last_seen never decreases.
C1_FirstSeenFixedLastSeenMonotone ==
    [][ \A i \in 1..Len(discovered_devices), j \in 1..Len(discovered_devices') :
            discovered_devices'[j].mac_address = discovered_devices[i].mac_address
            => /\ discovered_devices'[j].first_seen = discovered_devices[i].first_seen
               /\ discovered_devices'[j].last_seen >= discovered_devices[i].last_seen ]_vars

\* a record was observed again after the clock had moved on, with other data
C1_Witness ==
    \E i \in 1..Len(discovered_devices) :
        /\ discovered_devices[i].last_seen > discovered_devices[i].first_seen
        /\ discovered_devices[i].ip_address = ObsPrinterMoved.ip

\* C2: after any sequence of reconcile calls the registry holds exactly one
\* record per MAC ever reconciled, none for anything else, and every record
\* has first_seen <= last_seen.
C2_OneRecordPerMac ==
    /\ \A mac \in reconciled : Cardinality(RowsOf(mac)) = 1
    /\ \A i \in 1..Len(discovered_devices) :
           /\ discovered_devices[i].mac_address \in reconciled
           /\ discovered_devices[i].first_seen <= discovered_devices[i].last_seen

\* two MACs reconciled over several calls, one of them seen again later
C2_Witness ==
    /\ Cardinality(reconciled) = 2
    /\ Len(scan_history) = MaxScans
    /\ \E i \in 1..Len(discovered_devices) :
           discovered_devices[i].last_seen > discovered_devices[i].first_seen

WithoutLastSeen(rows) == [i \in 1..Len(rows) |-> [rows[i] EXCEPT !.last_seen = 0]]

\* C3: reconciling the same observations a second time, at once or later,
\* leaves every Device Record as the first reconcile left it, last_seen
\* aside, and adds no record.
C3_ReconcileTwiceSameRecord ==
    \A devices \in ScanResults, later \in now..MaxTime :
        LET once == SaveDevices(Database(discovered_devices, next_id), devices, now)
            twice == SaveDevices(once, devices, later)
        IN /\ Len(twice.rows) = Len(once.rows)
           /\ WithoutLastSeen(twice.rows) = WithoutLastSeen(once.rows)
           /\ ~twice.raised

\* the registry after the printer's observation was reconciled twice, the
\* second time one tick later
C3_Witness ==
    /\ now = 1
    /\ discovered_devices =
           SaveDevices(SaveDevices(Database(<<>>, 1), <<ObsPrinter>>, 0), <<ObsPrinter>>, 1).rows
    /\ Len(scan_history) = 2

\* the rows of the registry after the step that carry a MAC
RowsAfter(mac) ==
    {j \in 1..Len(discovered_devices') : discovered_devices'[j].mac_address = mac}

\* C21: reconciling an observation whose MAC has no record yet inserts
\* exactly one record keyed by that MAC, with first_seen = last_seen = the
\* time of the reconcile and status "Active".
C21_InsertOneActiveRecord ==
    [][ \A mac \in reconciled' \ reconciled :
            /\ Cardinality(RowsAfter(mac)) = 1
            /\ \A j \in RowsAfter(mac) :
                  /\ discovered_devices'[j].first_seen = now
                  /\ discovered_devices'[j].last_seen = now
                  /\ discovered_devices'[j].status = "Active" ]_vars

\* C27: in the real engine no reconcile changes the status of an existing
\* Device Record: a record keeps its place, its mac, its first_seen and the
\* status it was inserted with, whether or not its device is in the scan,
\* and no record is ever Offline.
C27_StatusNeverChanges ==
    /\ [][ \A i \in 1..Len(discovered_devices) :
              /\ i <= Len(discovered_devices')
              /\ discovered_devices'[i].mac_address = discovered_devices[i].mac_address
              /\ discovered_devices'[i].first_seen = discovered_devices[i].first_seen
              /\ discovered_devices'[i].status = discovered_devices[i].status ]_vars
    /\ [](\A i \in 1..Len(discovered_devices) :
              discovered_devices[i].status = InsertDevice(0, ObsPrinter, 0).status)

\* the printer was last seen at time 0, a later reconcile at time 2 found
\* only the laptop, and the printer's record still has its first status
C27_Witness ==
    /\ now = 2
    /\ \E i, j \in 1..Len(discovered_devices) :
          /\ discovered_devices[i].mac_address = ObsPrinter.mac
          /\ discovered_devices[i].last_seen = 0
          /\ discovered_devices[i].status = "active"
          /\ discovered_devices[j].mac_address = ObsLaptop.mac
          /\ discovered_devices[j].last_seen = 2

\* C36: an add_blocked_domain or remove_blocked_domain that returns failure,
\* a failure to persist included, leaves the block-list in memory and the
\* persisted block-list as they were, so that the two are always equal.
C36_FailureChangesNothing ==
    /\ [][ (IsBlockCall /\ block_result'.op \in {"add", "remove"} /\ ~block_result'.ok)
              => /\ blocked_domains' = blocked_domains
                 /\ config_file' = config_file ]_vars
    /\ [](blocked_domains = config_file)

\* C37: remove matches under the cleaning add applies: a
\* remove_blocked_domain that follows a successful add_blocked_domain with
\* the same input string succeeds, unless the file cannot be written, and
\* leaves the block-list as it was before the add.
C37_RemoveUndoesAdd ==
    [][ (/\ IsBlockCall
         /\ block_result.op = "add" /\ block_result.ok
         /\ block_result'.op = "remove"
         /\ block_result'.domain = block_result.domain
         /\ block_result'.msg # "Failed to save changes")
        => /\ block_result'.ok
           /\ blocked_domains' = SubSeq(blocked_domains, 1, Len(blocked_domains) - 1) ]_vars

\* C38: on the real router, once remove_blocked_domain has returned success
\* for a domain, the FORWARD chain holds no rule for that domain, for any
\* device, whatever adds, re-applications and address changes came before.
C38_RemovedDomainHasNoRule ==
    [][ (IsBlockCall /\ block_result'.op = "remove" /\ block_result'.ok)
        => \A i \in 1..Len(router_rules') :
               router_rules'[i][2] # CleanedForRemove[block_result'.domain] ]_vars

\* C40: once a switch_to_real_discovery or switch_to_mock_discovery call has
\* returned or raised, current_mode names a mode whose engine exists and has
\* its running flag set.
C40_CurrentModeNamesRunningEngine ==
    LET e == IF current_mode = "real" THEN real_discovery ELSE mock_discovery IN
    engines # <<>> => (e # 0 /\ engines[e].running)

(***************************************************************************)
(* Properties of the OpenWrt adapter                                       *)
(***************************************************************************)
\* the router after the first n commands of block_domain took effect
RECURSIVE EffectsOfFirst(_, _, _, _)
EffectsOfFirst(router, n, device_ip, domain) ==
    IF n = 0 THEN router
    ELSE OpenWrtEffect(EffectsOfFirst(router, n - 1, device_ip, domain), n, device_ip, domain)

\* C31: when command k of OpenWrt's block_domain exits non-zero, the
\* commands sent are exactly the first k of the sequence, the result is a
\* failure whose message carries command k and its error, and the router
\* is left with the effects of commands 1..k-1.
C31_AbortAtFirstFailure ==
    [][ (firewall_result'.nth # firewall_result.nth /\ firewall_result'.op = "openwrt_block")
        => LET call == firewall_result'
               commands == OpenWrtBlockCommands(call.device_ip, call.domain)
           IN  \A k \in 1..Len(call.executed) :
                  /\ call.executed[k].cmd = commands[k]
                  /\ call.executed[k].exit = 1
                       => /\ k = Len(call.executed)
                          /\ call.result.shape = "triple"
                          /\ ~call.result.ok
                          /\ call.result.rule = None
                          /\ call.result.msg = "Command failed: " \o commands[k] \o " - stderr"
                          /\ call.router = EffectsOfFirst(firewall_result.router, k - 1,
                                                          call.device_ip, call.domain) ]_vars

\* C35: get_behavior_tag follows its priority list: Linux Admin Device
\* exactly when port 22 is open; otherwise Windows Remote Access exactly
\* when 3389 is open; otherwise IoT MQTT Device exactly when 1883 or 8883 is
\* open; otherwise the printer or camera tag when the host name contains the
\* word; otherwise Web Client exactly when 80 or 443 is open; otherwise
\* Standard Device.
C35_BehaviorTagPriority ==
    classified.op = "classify" =>
        LET d == classified.observation
            open == PortNumbers(d.ports)
            hostname == Lower(OrEmpty(d.hostname))
            tag == classified.behavior_tag
        IN
        IF 22 \in open THEN tag = "Linux Admin Device"
        ELSE IF 3389 \in open THEN tag = "Windows Remote Access"
        ELSE IF open \cap {1883, 8883} # {} THEN tag = "IoT MQTT Device"
        ELSE IF Contains(hostname, "printer") THEN tag = "Network Printer"
        ELSE IF Contains(hostname, "camera") \/ Contains(hostname, "cam")
        THEN tag = "Security Camera"
        ELSE IF open \cap {80, 443} # {} THEN tag = "Web Client"
        ELSE tag = "Standard Device"

(***************************************************************************)
(* Properties of the simulated adapter                                     *)
(***************************************************************************)
\* a call on the simulated adapter has just returned
IsSimulatedCall(op) ==
    /\ firewall_type = "simulated"
    /\ firewall_result'.nth # firewall_result.nth
    /\ firewall_result'.op = op

\* how many rules the list holds for the pair
RulesOfPair(rules, device_ip, domain) ==
    Cardinality({i \in 1..Len(rules) :
                    rules[i].device_ip = device_ip /\ rules[i].domain = domain})

\* C32: the simulated adapter's rule list never holds two rules for one
\* (device_ip, domain) pair, and a block_domain for a pair that has a rule
\* returns failure and leaves the list and the counter as they were.
C32_OneRulePerPair ==
    /\ [](firewall_type = "simulated"
            => \A device_ip \in DeviceIps, domain \in FirewallDomains :
                   RulesOfPair(firewall_rules, device_ip, domain) <= 1)
    /\ [][ (/\ IsSimulatedCall("block")
            /\ RulesOfPair(firewall_rules, firewall_result'.device_ip,
                           firewall_result'.domain) > 0)
           => /\ ~firewall_result'.result.ok
              /\ firewall_rules' = firewall_rules
              /\ rule_counter' = rule_counter ]_vars

\* a block for a pair that has a rule was rejected while the list holds
\* rules for two other pairs as well
C32_Witness ==
    /\ firewall_type = "simulated"
    /\ firewall_result.op = "block"
    /\ ~firewall_result.result.ok
    /\ RulesOfPair(firewall_rules, firewall_result.device_ip, firewall_result.domain) = 1
    /\ Len(firewall_rules) = 3

\* the rules of the list that are not for the pair, in order
RulesOfOthers(rules, device_ip, domain) ==
    LET Other(rule) == ~(rule.device_ip = device_ip /\ rule.domain = domain)
    IN  SelectSeq(rules, Other)

\* C39: on the simulated adapter a successful block_domain appends one rule
\* for the pair; an unblock_domain for a pair that has a rule succeeds and
\* removes that rule and no other, so that right after the block it gives
\* back the list the block started from; an unblock_domain for a pair
\* without a rule fails and leaves the list as it was.
C39_UnblockUndoesBlock ==
    [][ LET call == firewall_result' IN
        /\ (IsSimulatedCall("block") /\ call.result.ok)
              => /\ Len(firewall_rules') = Len(firewall_rules) + 1
                 /\ SubSeq(firewall_rules', 1, Len(firewall_rules)) = firewall_rules
                 /\ firewall_rules'[Len(firewall_rules')].device_ip = call.device_ip
                 /\ firewall_rules'[Len(firewall_rules')].domain = call.domain
        /\ (IsSimulatedCall("unblock")
              /\ RulesOfPair(firewall_rules, call.device_ip, call.domain) > 0)
              => /\ call.result.ok
                 /\ firewall_rules' = RulesOfOthers(firewall_rules, call.device_ip, call.domain)
                 /\ Len(firewall_rules') = Len(firewall_rules) - 1
        /\ (IsSimulatedCall("unblock")
              /\ firewall_result.op = "block" /\ firewall_result.result.ok
              /\ firewall_result.device_ip = call.device_ip
              /\ firewall_result.domain = call.domain)
              => firewall_rules' = SubSeq(firewall_rules, 1, Len(firewall_rules) - 1)
        /\ (IsSimulatedCall("unblock")
              /\ RulesOfPair(firewall_rules, call.device_ip, call.domain) = 0)
              => /\ ~call.result.ok
                 /\ firewall_rules' = firewall_rules ]_vars

\* an unblock has removed the rule of its pair from between two others
C39_Witness ==
    /\ firewall_type = "simulated"
    /\ firewall_result.op = "unblock"
    /\ firewall_result.result.ok
    /\ Len(firewall_rules) = 2
    /\ firewall_rules[1].id = 1
    /\ firewall_rules[2].id = 3

(***************************************************************************)
(* Properties of the simulated engine                                      *)
(***************************************************************************)
\* which of the three transitions took a device from old to new
TransitionsOf(old, new) ==
    (IF new.ip # old.ip THEN {"ip"} ELSE {})
    \cup (IF old.status = "Active" /\ new.status = "Offline" THEN {"offline"} ELSE {})
    \cup (IF old.status = "Offline" /\ new.status = "Active" THEN {"online"} ELSE {})

Population(e) == Cardinality(DOMAIN engines[e].map)

\* C34: the population of the simulated engine never exceeds the capacity;
\* a scan that finds a map with devices leaves at most one device more than
\* it found; the list a scan returns holds the devices of the map that are
\* Active and no others.
C34_PopulationBounded ==
    /\ [](\A e \in 1..Len(engines) : Population(e) <= MockCapacity)
    /\ [][ \A e \in 1..Len(engines) :
             /\ (engines[e].pc = "adding" /\ engines'[e].pc # "adding")
                   => Cardinality(DOMAIN engines'[e].map) <= engines[e].devices[1].device_id
             /\ (handler.pc = "adding" /\ handler'.pc # "adding" /\ e = mock_discovery)
                   => Cardinality(DOMAIN engines'[e].map) <= handler.devices[1].device_id
             /\ (Population(e) > 0 /\ engines[e].pc = "scanning" /\ engines'[e].pc # "scanning")
                   => Cardinality(DOMAIN engines'[e].map) <= Population(e) + 1
             /\ (scan_calls' # scan_calls /\ e = mock_discovery)
                   => LET returned == scan_calls'[1].returned IN
                      /\ \A i \in 1..Len(returned) :
                            /\ returned[i] \in DOMAIN engines'[e].map
                            /\ engines'[e].map[returned[i]].status = "Active"
                      /\ \A mac \in DOMAIN engines'[e].map :
                            engines'[e].map[mac].status = "Active"
                               => \E i \in 1..Len(returned) : returned[i] = mac ]_vars

(***************************************************************************)
(* Properties of the background loops                                      *)
(***************************************************************************)
\* the positions of a loop between its test of the flag and its sleep
InFlight == {"scanning", "select", "write", "sync"}

\* C28: an exception in an iteration never ends the loop: the thread ends
\* only at a test of the flag that finds it cleared; after the except
\* clause's sleep the loop is at its test again, and a test that finds the
\* flag set starts the next iteration.
C28_FailureNeverEndsLoop ==
    [][ \A e \in 1..Len(engines) :
          /\ engines[e].pc = "backoff" => engines'[e].pc \in {"backoff", "check"}
          /\ (engines[e].pc = "check" /\ engines[e].running /\ engines'[e].pc # "check")
                => engines'[e].pc = "scanning"
          /\ (engines[e].pc # "done" /\ engines'[e].pc = "done")
                => (engines[e].pc = "check" /\ ~engines[e].running) ]_vars

\* the save of the real loop's iteration failed, its flag is set, and the
\* thread is in the sleep of its except clause
C28_Witness ==
    \E e \in 1..Len(engines) :
        /\ engines[e].kind = "real" /\ engines[e].running
        /\ engines[e].pc = "backoff"
        /\ Len(scan_calls) >= 1

\* C29: once the flag is cleared it stays cleared; the test of the flag that
\* finds it cleared starts no scan and ends the thread, which stays ended;
\* clearing the flag leaves the position and the devices of an iteration in
\* flight as they are, and that iteration never jumps to the end.
C29_StopEndsLoopAtBoundary ==
    [][ \A e \in 1..Len(engines) :
          /\ ~engines[e].running => ~engines'[e].running
          /\ (engines[e].pc = "check" /\ ~engines[e].running)
                => engines'[e].pc \in {"check", "done"}
          /\ engines[e].pc = "done" => engines'[e].pc = "done"
          /\ (engines[e].running /\ ~engines'[e].running)
                => /\ engines'[e].pc = engines[e].pc
                   /\ engines'[e].devices = engines[e].devices
          /\ engines[e].pc \in InFlight \cup {"sleep", "backoff"}
                => engines'[e].pc # "done" ]_vars

\* the flag was cleared after the real loop tested it, and the scan of that
\* iteration has been saved and is being synced
C29_Witness ==
    \E e \in 1..Len(engines) :
        /\ engines[e].kind = "real" /\ ~engines[e].running
        /\ engines[e].pc = "sync"
        /\ Len(engines[e].devices) > 0
        /\ Len(scan_history) >= 1

\* the macs sync_with_dashboard has a request to send for
SyncTargets(kind, devices) ==
    IF kind = "mock" THEN devices
    ELSE LET HasMac(d) == d.mac # None
             kept == SelectSeq(devices, HasMac)
         IN  [i \in 1..Len(kept) |-> kept[i].mac]

\* C30: in both backends the sync of a loop iteration sends one request for
\* every device of the scan that has a mac, whatever the dashboard answered
\* to the earlier ones, and the iteration goes on to its regular sleep.
C30_SyncAbsorbsFailures ==
    [][ \A e \in 1..Len(engines) :
          (engines[e].pc = "sync" /\ engines'[e].pc # "sync")
             => /\ engines'[e].pc = "sleep"
                /\ engines'[e].posted = SyncTargets(engines[e].kind, engines[e].devices) ]_vars

\* both requests of a sync failed or were not answered 200, both were sent,
\* and the loop is in its regular sleep
C30_Witness ==
    \E e \in 1..Len(engines) :
        /\ engines[e].pc = "sleep"
        /\ Len(engines[e].posted) = 2
        /\ engines[e].failed = 2

(***************************************************************************)
(* Properties of the classifier                                            *)
(***************************************************************************)
\* the categories in the order of the table, with the name each is
\* reported under
CategoryOrder ==
    << [category |-> "printer", reported |-> "Printer"],
       [category |-> "router", reported |-> "Router"],
       [category |-> "camera", reported |-> "Camera"],
       [category |-> "iot", reported |-> "Iot"],
       [category |-> "server", reported |-> "Server"],
       [category |-> "mobile", reported |-> "Mobile"],
       [category |-> "laptop", reported |-> "Laptop"],
       [category |-> "desktop", reported |-> "Desktop"] >>

\* the keywords the table lists for a category
KeywordsOf(category) ==
    LET entry == CHOOSE k \in 1..Len(device_patterns) : device_patterns[k].type = category
    IN Range(device_patterns[entry].patterns)

\* the lower-cased text of host name, service descriptors and vendor
SignalText(d) ==
    Lower(OrEmpty(d.hostname) \o " " \o Join(" ", d.ports) \o " " \o OrEmpty(d.vendor))

\* whether a keyword of the k-th category occurs in the text
KeywordHit(text, k) ==
    \E word \in KeywordsOf(CategoryOrder[k].category) : Contains(text, word)

\* the port signatures in priority order: one of `any` is open, and one of
\* `with` unless it is empty
PortSignatures ==
    << [any |-> {80, 443}, with |-> {22}, reported |-> "Server"],
       [any |-> {80, 443}, with |-> {631}, reported |-> "Printer"],
       [any |-> {80, 443}, with |-> {}, reported |-> "Web Device"],
       [any |-> {22}, with |-> {}, reported |-> "Linux Server"],
       [any |-> {3389}, with |-> {}, reported |-> "Windows Server"],
       [any |-> {139, 445}, with |-> {}, reported |-> "Windows Device"],
       [any |-> {1883, 8883}, with |-> {}, reported |-> "IoT Device"] >>

\* whether the open ports carry the i-th signature
SignatureHit(d, i) ==
    /\ PortSignatures[i].any \cap PortNumbers(d.ports) # {}
    /\ PortSignatures[i].with # {} => PortSignatures[i].with \cap PortNumbers(d.ports) # {}

\* C20: classify_device reports the first category, in the order printer,
\* router, camera, iot, server, mobile, laptop, desktop, one of whose keywords
\* occurs in the lower-cased text of host name, services and vendor; with no
\* keyword in the text it reports the first port signature the open ports
\* carry, and 'Unknown Device' with none.  The observation with host name
\* 'printer-finance' and service '631/tcp (ipp)' is a 'Printer' tagged
\* 'Network Printer'.
C20_FirstMatchInTableOrder ==
    classified.op = "classify" =>
        LET d == classified.observation
            text == SignalText(d)
        IN
        /\ \A k \in 1..Len(CategoryOrder) :
              (KeywordHit(text, k) /\ \A h \in 1..(k - 1) : ~KeywordHit(text, h))
                  => classified.device_type = CategoryOrder[k].reported
        /\ (\A k \in 1..Len(CategoryOrder) : ~KeywordHit(text, k)) =>
              /\ \A i \in 1..Len(PortSignatures) :
                    (SignatureHit(d, i) /\ \A j \in 1..(i - 1) : ~SignatureHit(d, j))
                        => classified.device_type = PortSignatures[i].reported
              /\ (\A i \in 1..Len(PortSignatures) : ~SignatureHit(d, i))
                    => classified.device_type = "Unknown Device"
        /\ (d.hostname = "printer-finance" /\ d.ports = <<"631/tcp (ipp)">>)
              => /\ classified.device_type = "Printer"
                 /\ classified.behavior_tag = "Network Printer"

\* the printer of the finance department classified
C20_Witness ==
    /\ classified.op = "classify"
    /\ classified.observation.hostname = "printer-finance"
    /\ classified.observation.ports = <<"631/tcp (ipp)">>
    /\ classified.device_type = "Printer"
    /\ classified.behavior_tag = "Network Printer"

(***************************************************************************)
(* Properties of the dashboard process                                     *)
(***************************************************************************)
\* the MACs the registry table holds
RegistryMacs == {discovered_devices[i].mac_address : i \in 1..Len(discovered_devices)}

\* the MACs the manager's simulated backend holds
SimulatedMacs == IF mock_discovery = 0 THEN {} ELSE DOMAIN engines[mock_discovery].map

\* C4: across scans, reconciles and mode switches neither the registry table
\* nor the simulated backend's MAC-to-device map loses a MAC.
C4_DeviceRecordsNeverDeleted ==
    [][RegistryMacs \subseteq RegistryMacs' /\ SimulatedMacs \subseteq SimulatedMacs']_vars

\* the engine instances whose running flag is set
RunningEngines == {e \in 1..Len(engines) : engines[e].running}

\* C5: after any sequence of mode switches at most one discovery loop has its
\* running flag set.
C5_AtMostOneLoopRunning == Cardinality(RunningEngines) <= 1

\* the threads inside save_to_local_db: loop threads by engine index, the
\* request thread as 0
RegistryWriters ==
    {e \in 1..Len(engines) : engines[e].pc \in {"select", "write"}}
        \cup (IF handler.pc \in {"select", "write"} THEN {0} ELSE {})

\* whether a strategy can be used on this host
Available(strategy) ==
    CASE strategy = "nmap" -> NMAP_AVAILABLE
      [] strategy = "scapy" -> SCAPY_AVAILABLE
      [] OTHER -> TRUE

\* the first strategy of the chain that is available
FirstAvailable ==
    Strategies[CHOOSE k \in 1..Len(Strategies) :
                  Available(Strategies[k]) /\ \A h \in 1..(k - 1) : ~Available(Strategies[h])]

\* C26: every perform_network_scan calls exactly one strategy, the first
\* available of nmap, scapy, ping sweep, and returns that strategy's devices
\* with a MAC and nothing else, also when the strategy failed or found
\* nothing while a later one would have found devices.
C26_OneStrategyPerScan ==
    \A i \in 1..Len(scan_calls) :
        /\ scan_calls[i].ran = <<FirstAvailable>>
        /\ scan_calls[i].returned = DevicesWithMac(scan_calls[i].offer[FirstAvailable].found)

\* nmap was available and failed, scapy was available and would have found
\* a device: the scan returned nothing
C26_Witness ==
    /\ NMAP_AVAILABLE
    /\ SCAPY_AVAILABLE
    /\ \E i \in 1..Len(scan_calls) :
          /\ scan_calls[i].offer["nmap"].failed
          /\ scan_calls[i].offer["scapy"].found # <<>>
          /\ scan_calls[i].ran = <<"nmap">>
          /\ scan_calls[i].returned = <<>>

\* C6: at any time at most one thread is reconciling a scan into the registry.
C6_SingleRegistryWriter == Cardinality(RegistryWriters) <= 1

\* C7: once no reconcile is in flight, every scan that returned has exactly
\* one Scan Event, which records its observation count and the strategy it used.
C7_OneScanEventPerScan ==
    RegistryWriters = {} =>
        /\ Len(scan_history) = Len(scan_calls)
        /\ \A i \in 1..Len(scan_history) :
              /\ scan_history[i].devices_found = scan_calls[i].count
              /\ scan_history[i].scan_method = scan_calls[i].strategy

====
